---------------------------- MODULE Spec2Model ----------------------------
(***************************************************************************)
(* A model of dataset_utils.image_utils: the geometry functions of         *)
(* _image_processor.py (resize_image, find_closest_bucket), the single     *)
(* image pipeline of _convert_image.py (convert, resize_by_short_edge,     *)
(* convert_to_webp) and the thread-pool batch driver (batch_convert).      *)
(*                                                                         *)
(* Python's float is an IEEE 754 double.  The geometry code divides and    *)
(* multiplies in doubles and truncates with int(), so the model computes   *)
(* with doubles too: a double is a 53-bit significand and a binary         *)
(* exponent, every operation is the exact result rounded to nearest, ties  *)
(* to even.                                                                *)
(***************************************************************************)
EXTENDS Integers, Sequences, FiniteSets, TLC

VARIABLES
    fn,        \* the function under call: its name, or "idle"
    args,      \* the arguments of the call
    ret,       \* what the call returned or raised; NoReturn before it ran
    fs,        \* the file system: the files that exist
    clock,     \* the time of the file system's clock
    encoder,   \* the image.save calls made so far, in order
    history,   \* the calls and events so far: geometry calls, calls in a row, completions
    pillow,    \* the Pillow build installed
    pool,      \* batch_convert: the futures submitted, in order
    main,      \* batch_convert: the main thread's position and locals
    waiter     \* batch_convert: the futures finished since as_completed waits

vars == <<fn, args, ret, fs, clock, encoder, history, pillow, pool, main, waiter>>

(***************************************************************************)
(* Bounds of the model.                                                    *)
(***************************************************************************)
MaxDim == 4          \* image and target dimensions are drawn from 1..MaxDim
MaxBucketDim == 3    \* bucket selection: image and bucket dimensions
MaxBuckets == 2      \* bucket selection: the longest bucket list
MaxEvents == 3       \* convert_to_webp: calls and source rewrites in a row
MaxPaths == 3        \* batch_convert: the longest list of image paths
MaxSizes == 2        \* batch_convert_to_webp: the longest list of sizes

NoReturn == [pending |-> TRUE]

Min2(a, b) == IF a <= b THEN a ELSE b
Max2(a, b) == IF a >= b THEN a ELSE b

(***************************************************************************)
(* IEEE 754 binary64 arithmetic on non-negative values.                    *)
(* A double is [m |-> significand, e |-> exponent], value = m * 2^e, with  *)
(* 2^52 <= m < 2^53; zero is FZero.  A significand, and every exact        *)
(* intermediate result, is a natural number of up to 128 bits held as a    *)
(* tuple of eight 16-bit limbs, least significant first.  The operations   *)
(* are exact for the magnitudes of the model: integers below 2^15 and      *)
(* their quotients.                                                        *)
(*                                                                         *)
(* An operator binds its arguments through singleton sets                  *)
(* (CHOOSE r \in {e : a \in {a0}} : TRUE is e with a0 for a), which makes  *)
(* TLC evaluate each argument once.                                        *)
(***************************************************************************)
MantBits == 53

Base == 2^16
LimbIdx == 1..8

BigZero == <<0, 0, 0, 0, 0, 0, 0, 0>>
FZero == [m |-> BigZero, e |-> 0]
BigOfNat(n) == <<n % Base, n \div Base, 0, 0, 0, 0, 0, 0>>
NatOfBig(a) == a[1] + (Base * a[2])

Limb(a, i) == IF i \in LimbIdx THEN a[i] ELSE 0

\* a * 2^k
BigShl(a0, k0) ==
    CHOOSE r \in
        {LET q    == k \div 16
             t    == k % 16
             L(i) == ((Limb(a, i - q) * 2^t) % Base)
                     + (Limb(a, i - q - 1) \div 2^(16 - t))
         IN  <<L(1), L(2), L(3), L(4), L(5), L(6), L(7), L(8)>> :
         a \in {a0}, k \in {k0}} : TRUE

\* a \div 2^k
BigShr(a0, k0) ==
    CHOOSE r \in
        {LET q    == k \div 16
             t    == k % 16
             L(i) == (Limb(a, i + q) \div 2^t)
                     + ((Limb(a, i + q + 1) % 2^t) * 2^(16 - t))
         IN  <<L(1), L(2), L(3), L(4), L(5), L(6), L(7), L(8)>> :
         a \in {a0}, k \in {k0}} : TRUE

\* a < b
BigLess(a0, b0) ==
    \E a \in {a0}, b \in {b0} :
        \E i \in LimbIdx : a[i] < b[i] /\ \A j \in LimbIdx : j > i => a[j] = b[j]

\* a - b, for a >= b; limb i borrows when the limbs of a below it are less
\* than those of b
BigSub(a0, b0) ==
    CHOOSE r \in
        {LET Borrow(i) ==
                 IF \E k \in LimbIdx :
                        /\ k < i
                        /\ a[k] < b[k]
                        /\ \A j \in LimbIdx : (k < j /\ j < i) => a[j] = b[j]
                 THEN 1 ELSE 0
             L(i) == (a[i] - b[i] - Borrow(i) + Base) % Base
         IN  <<L(1), L(2), L(3), L(4), L(5), L(6), L(7), L(8)>> :
         a \in {a0}, b \in {b0}} : TRUE

\* a + 1
BigInc(a0) ==
    CHOOSE r \in
        {LET Carry(i) == IF \A j \in LimbIdx : j < i => a[j] = Base - 1 THEN 1 ELSE 0
             L(i)     == (a[i] + Carry(i)) % Base
         IN  <<L(1), L(2), L(3), L(4), L(5), L(6), L(7), L(8)>> :
         a \in {a0}} : TRUE

\* a * n for an integer 0 <= n < 2^15: the carry into limb i
RECURSIVE MulCarry(_, _, _)
MulCarry(a, n, i) ==
    IF i = 1 THEN 0 ELSE ((a[i - 1] * n) + MulCarry(a, n, i - 1)) \div Base

BigMulSmall(a0, n0) ==
    CHOOSE r \in
        {LET L(i) == ((a[i] * n) + MulCarry(a, n, i)) % Base
         IN  <<L(1), L(2), L(3), L(4), L(5), L(6), L(7), L(8)>> :
         a \in {a0}, n \in {n0}} : TRUE

\* the number of bits of a: 0 for zero
BitLen(a0) ==
    CHOOSE r \in
        {IF a = BigZero THEN 0
         ELSE LET top == CHOOSE i \in LimbIdx :
                             a[i] # 0 /\ \A j \in LimbIdx : j > i => a[j] = 0
                  k   == CHOOSE c \in 1..16 : 2^(c - 1) <= a[top] /\ a[top] < 2^c
              IN  (16 * (top - 1)) + k :
         a \in {a0}} : TRUE

\* r * 2^e with r < 2^54 as a double: r of 54 bits is 2^53, from a carry
Normalize(r0, e0) ==
    CHOOSE x \in
        {IF BitLen(r) > MantBits
         THEN [m |-> BigShr(r, 1), e |-> e + 1]
         ELSE [m |-> r, e |-> e] :
         r \in {r0}, e \in {e0}} : TRUE

\* m * 2^e, for m of s bits more than a significand, rounded to nearest,
\* ties to even; sticky: a nonzero tail lies below the last bit of m.
RoundDrop(m0, e0, s0, sticky) ==
    CHOOSE x \in
        {LET half == BigShl(BigOfNat(1), s - 1)
             up   == \/ BigLess(half, rem)
                     \/ rem = half /\ (sticky \/ q[1] % 2 = 1)
         IN  Normalize(IF up THEN BigInc(q) ELSE q, e + s) :
         e \in {e0}, s \in {s0}, q \in {BigShr(m0, s0)},
         rem \in {BigSub(m0, BigShl(BigShr(m0, s0), s0))}} : TRUE

\* The double nearest to m * 2^e (plus the tail, when sticky).
RoundBig(m0, e0, sticky) ==
    CHOOSE x \in
        {IF n = 0 THEN FZero
         ELSE IF n <= MantBits
              THEN [m |-> BigShl(m, MantBits - n), e |-> e - (MantBits - n)]
         ELSE RoundDrop(m, e, n - MantBits, sticky) :
         m \in {m0}, e \in {e0}, n \in {BitLen(m0)}} : TRUE

\* Long division of a by b in base 2^16: the remainder after j fraction limbs.
RECURSIVE DivRem(_, _, _)
DivRem(a, b, j) == IF j = 0 THEN a % b ELSE (DivRem(a, b, j - 1) * Base) % b

\* a / b for integers 0 <= a < 2^31, 0 < b < 2^15 (Python's true division of
\* two ints): the quotient to five fraction limbs (80 bits), then rounded.
FDiv(a0, b0) ==
    CHOOSE x \in
        {LET Frac(j) == (DivRem(a, b, j - 1) * Base) \div b
         IN  RoundBig(<<Frac(5), Frac(4), Frac(3), Frac(2), Frac(1),
                        (a \div b) % Base, (a \div b) \div Base, 0>>,
                      -80, DivRem(a, b, 5) # 0) :
         a \in {a0}, b \in {b0}} : TRUE

\* n * x for an integer 0 <= n < 2^15 and a double x (the int converts exactly).
FMulNat(n0, x0) ==
    CHOOSE y \in
        {RoundBig(BigMulSmall(x.m, n), x.e, FALSE) : n \in {n0}, x \in {x0}} : TRUE

\* Both significands over the smaller exponent.
Align(x0, y0) ==
    CHOOSE s \in
        {LET e == Min2(x.e, y.e)
         IN  [a |-> BigShl(x.m, x.e - e), b |-> BigShl(y.m, y.e - e), e |-> e] :
         x \in {x0}, y \in {y0}} : TRUE

\* x < y
FLess(x, y) == \E s \in {Align(x, y)} : BigLess(s.a, s.b)

\* abs(x - y)
FAbsDiff(x, y) ==
    CHOOSE d \in
        {IF BigLess(s.a, s.b)
         THEN RoundBig(BigSub(s.b, s.a), s.e, FALSE)
         ELSE RoundBig(BigSub(s.a, s.b), s.e, FALSE) :
         s \in {Align(x, y)}} : TRUE

\* min(x, y) and max(x, y) as Python evaluates them: the first argument
\* unless the second is strictly smaller (larger).
FMin(x0, y0) ==
    CHOOSE r \in {IF FLess(y, x) THEN y ELSE x : x \in {x0}, y \in {y0}} : TRUE
FMax(x0, y0) ==
    CHOOSE r \in {IF FLess(x, y) THEN y ELSE x : x \in {x0}, y \in {y0}} : TRUE

\* int(x): truncation toward zero, for x < 2^31.
FInt(x0) ==
    CHOOSE n \in
        {IF x.e >= 0
         THEN NatOfBig(BigShl(x.m, x.e))
         ELSE NatOfBig(BigShr(x.m, -x.e)) :
         x \in {x0}} : TRUE

(***************************************************************************)
(* Pillow.  Image.resize raises ValueError ("height and width must be      *)
(* > 0") when a requested dimension is below 1; Image.crop returns an      *)
(* image of the box's size; Image.new and paste keep the canvas size.      *)
(***************************************************************************)
Raised(kind) == [ok |-> FALSE, error |-> kind]

\* image.resize((new_width, new_height), resampling)
PilResize(size) ==
    IF size[1] < 1 \/ size[2] < 1
    THEN Raised("ValueError")
    ELSE [ok |-> TRUE, size |-> size]

(***************************************************************************)
(* _image_processor.resize_image                                           *)
(***************************************************************************)
\* ScaledSize with round() in place of int()
ScaledSizeRounded(size, ratio0) ==
    CHOOSE r \in
        {<<(FInt(FMulNat(2 * size[1], ratio)) + 1) \div 2,
           (FInt(FMulNat(2 * size[2], ratio)) + 1) \div 2>> :
         ratio \in {ratio0}} : TRUE

\* int(width * ratio), int(height * ratio): the size handed to the resampler
ScaledSize(size, ratio0) ==
    CHOOSE r \in
        {<<FInt(FMulNat(size[1], ratio)), FInt(FMulNat(size[2], ratio))>> :
         ratio \in {ratio0}} : TRUE

\* the ratio of each mode: min of the two quotients, max for "crop"
ResizeRatio(size, target_size, mode) ==
    IF mode = "crop"
    THEN FMax(FDiv(target_size[1], size[1]), FDiv(target_size[2], size[2]))
    ELSE FMin(FDiv(target_size[1], size[1]), FDiv(target_size[2], size[2]))

resize_image(size, target_size, mode) ==
    CHOOSE r \in
        {LET target_width  == target_size[1]
             target_height == target_size[2]
             resized == PilResize(scaled)
         IN  IF ~resized.ok
             THEN [ok |-> FALSE, error |-> resized.error, scaled |-> scaled]
             ELSE CASE mode = "proportional" ->
                         [ok |-> TRUE, size |-> resized.size, scaled |-> scaled]
                    [] mode = "crop" ->
                         LET left   == (scaled[1] - target_width) \div 2
                             top    == (scaled[2] - target_height) \div 2
                             right  == left + target_width
                             bottom == top + target_height
                         IN  [ok |-> TRUE, size |-> <<right - left, bottom - top>>,
                              scaled |-> scaled]
                    [] mode = "padding" ->
                         [ok |-> TRUE, size |-> <<target_width, target_height>>,
                          scaled |-> scaled] :
         scaled \in {ScaledSize(size, ResizeRatio(size, target_size, mode))}} : TRUE

ResizeModes == {"proportional", "crop", "padding"}

(***************************************************************************)
(* _image_processor.find_closest_bucket                                    *)
(***************************************************************************)
\* The loop over the buckets from index i on, with the closest bucket and
\* the smallest difference found so far (min_diff.inf: still float('inf')).
RECURSIVE ScanBuckets(_, _, _, _, _)
ScanBuckets(aspect_ratio0, buckets, i, closest_bucket, min_diff0) ==
    IF i > Len(buckets) THEN closest_bucket
    ELSE CHOOSE r \in
        {IF min_diff.inf \/ FLess(diff, min_diff.v)
         THEN ScanBuckets(aspect_ratio, buckets, i + 1, buckets[i],
                          [inf |-> FALSE, v |-> diff])
         ELSE ScanBuckets(aspect_ratio, buckets, i + 1, closest_bucket, min_diff) :
         aspect_ratio \in {aspect_ratio0}, min_diff \in {min_diff0},
         diff \in {FAbsDiff(aspect_ratio0, FDiv(buckets[i][1], buckets[i][2]))}} : TRUE

find_closest_bucket(width, height, buckets) ==
    IF buckets = <<>>
    THEN Raised("ValueError")
    ELSE [ok |-> TRUE,
          bucket |-> ScanBuckets(FDiv(width, height), buckets, 1, <<>>,
                                 [inf |-> TRUE, v |-> FZero])]

(***************************************************************************)
(* _convert_image.resize_by_short_edge                                     *)
(***************************************************************************)
\* resize_by_short_edge without the only_shrink test of line 187
ResizeByShortEdgeAlways(size, short, only_shrink) ==
    LET width      == size[1]
        height     == size[2]
        short_edge == Min2(width, height)
    IN  IF FALSE
        THEN [ok |-> TRUE, size |-> size, scaled |-> size, resized |-> FALSE]
        ELSE CHOOSE x \in
            {IF r.ok
             THEN [ok |-> TRUE, size |-> r.size, scaled |-> r.scaled,
                   resized |-> TRUE]
             ELSE [ok |-> FALSE, error |-> r.error, scaled |-> r.scaled,
                   resized |-> TRUE] :
             r \in {resize_image(size,
                        IF width <= height
                        THEN <<short, FInt(FDiv(height * short, width))>>
                        ELSE <<FInt(FDiv(width * short, height)), short>>,
                        "proportional")}} : TRUE

resize_by_short_edge(size, short, only_shrink) ==
    LET width      == size[1]
        height     == size[2]
        short_edge == Min2(width, height)
    IN  IF only_shrink /\ short_edge <= short
        THEN [ok |-> TRUE, size |-> size, scaled |-> size, resized |-> FALSE]
        ELSE CHOOSE x \in
            {IF r.ok
             THEN [ok |-> TRUE, size |-> r.size, scaled |-> r.scaled,
                   resized |-> TRUE]
             ELSE [ok |-> FALSE, error |-> r.error, scaled |-> r.scaled,
                   resized |-> TRUE] :
             r \in {resize_image(size,
                        IF width <= height
                        THEN <<short, FInt(FDiv(height * short, width))>>
                        ELSE <<FInt(FDiv(width * short, height)), short>>,
                        "proportional")}} : TRUE

(***************************************************************************)
(* Python values.  An Optional is None or Some(x); a str is a TLA+ string  *)
(* and upper()/lower() act on the strings that occur as format names and   *)
(* file extensions.                                                        *)
(***************************************************************************)
None == <<>>
Some(x) == <<x>>
The(o) == o[1]

\* "if x:" for an Optional str, and for an Optional list or tuple
TruthyStr(o) == o # None /\ The(o) # ""
TruthySeq(o) == o # None /\ The(o) # <<>>

CaseTable ==
    {<<"jpeg", "JPEG">>, <<"jpg", "JPG">>, <<"png", "PNG">>,
     <<"webp", "WEBP">>, <<"dat", "DAT">>}

\* str.upper()
Upper(s) ==
    IF \E p \in CaseTable : p[1] = s
    THEN (CHOOSE p \in CaseTable : p[1] = s)[2]
    ELSE s

\* str.lower()
Lower(s) ==
    IF \E p \in CaseTable : p[2] = s
    THEN (CHOOSE p \in CaseTable : p[2] = s)[1]
    ELSE s

(***************************************************************************)
(* Paths and files.  A path is [dir, base, ext]: os.path.splitext gives    *)
(* (dir/base, "." + ext), or (dir/base, "") when ext is "".  base is the   *)
(* tuple of the pieces the name was built from.  The file system fs maps   *)
(* the paths that exist to [decodable, size, mode, format, mtime].         *)
(***************************************************************************)
Path(dir, base, ext) == [dir |-> dir, base |-> base, ext |-> ext]

\* os.path.exists
Exists(files, path) == path \in DOMAIN files

\* the file system after a file was written or replaced
WriteFile(files, path, file) ==
    [p \in DOMAIN files \cup {path} |-> IF p = path THEN file ELSE files[p]]

(***************************************************************************)
(* Pillow.  Image.open and load decode a file or raise; Image.convert      *)
(* knows the mode names of PilModes, case-sensitively, and raises          *)
(* ValueError for any other; Image.save finds the format from the file     *)
(* extension when none is passed (ValueError "unknown file extension"),    *)
(* looks a passed format up by its upper-cased name (KeyError), then opens *)
(* the file and runs the encoder, which raises OSError for a mode the      *)
(* format cannot hold.                                                     *)
(***************************************************************************)
PilModes == {"1", "L", "P", "RGB", "RGBA", "CMYK"}

PilSaveFormats == {"JPEG", "PNG", "WEBP"}

\* Image.registered_extensions(), by lower-cased extension
PilExtensionFormat(ext) ==
    CASE ext \in {"jpg", "jpeg"} -> Some("JPEG")
      [] ext = "png"  -> Some("PNG")
      [] ext = "webp" -> Some("WEBP")
      [] OTHER -> None

\* the modes an encoder writes
PilWritable(format, mode) ==
    CASE format = "JPEG" -> mode \in {"1", "L", "RGB", "CMYK"}
      [] format = "PNG"  -> mode \in {"1", "L", "P", "RGB", "RGBA"}
      [] format = "WEBP" -> TRUE

\* the range libwebp accepts; a build may reject or accept a value outside
PilWebpConfigValid(params) ==
    /\ params.quality # None => The(params.quality) \in 0..100
    /\ params.method # None => The(params.method) \in 0..6

\* image.convert(mode)
PilConvert(image, mode) ==
    IF mode \in PilModes
    THEN [ok |-> TRUE, image |-> [image EXCEPT !.mode = mode]]
    ELSE Raised("ValueError")

\* the mode a written file decodes to: WebP stores RGB or RGBA only
PilDecodedMode(format, mode) ==
    IF format = "WEBP" /\ mode \notin {"RGB", "RGBA"} THEN "RGB" ELSE mode

\* One call of image.save(path[, format], **params): the call as made, how
\* it ended and what it left at path ("written", "spoiled": opened and not
\* completed, "none": not opened).
PilSave(image, path, format, params, strict) ==
    LET resolved == IF format = None
                    THEN PilExtensionFormat(Lower(path.ext))
                    ELSE IF Upper(The(format)) \in PilSaveFormats
                         THEN Some(Upper(The(format)))
                         ELSE None
        call == [path |-> path, format |-> format, quality |-> params.quality,
                 method |-> params.method, mode |-> image.mode,
                 size |-> image.size]
    IN  IF resolved = None
        THEN [ok |-> FALSE, call |-> call, effect |-> "none",
              error |-> IF format = None THEN "ValueError" ELSE "KeyError"]
        ELSE IF ~PilWritable(The(resolved), image.mode)
        THEN [ok |-> FALSE, call |-> call, effect |-> "spoiled", error |-> "OSError"]
        ELSE IF The(resolved) = "WEBP" /\ strict /\ ~PilWebpConfigValid(params)
        THEN [ok |-> FALSE, call |-> call, effect |-> "spoiled", error |-> "ValueError"]
        ELSE [ok |-> TRUE, call |-> call, effect |-> "written",
              file |-> [decodable |-> TRUE, size |-> image.size,
                        mode |-> PilDecodedMode(The(resolved), image.mode),
                        format |-> The(resolved)]]

(***************************************************************************)
(* _image_processor.read_image, save_image, convert_color                  *)
(***************************************************************************)
read_image(files, image_path) ==
    IF ~Exists(files, image_path)
    THEN Raised("FileNotFoundError")
    ELSE IF ~files[image_path].decodable
    THEN Raised("ValueError")
    ELSE [ok |-> TRUE,
          image |-> [size |-> files[image_path].size,
                     mode |-> files[image_path].mode]]

\* ext[1:].upper(), with JPG taken for JPEG; None when there is no extension
FormatOfExtension(path) ==
    IF path.ext = "" THEN None
    ELSE IF Upper(path.ext) = "JPG" THEN Some("JPEG")
    ELSE Some(Upper(path.ext))

\* max(1, min(100, quality))
ClampQuality(quality) == Max2(1, Min2(100, quality))

\* max(0, min(6, method))
ClampMethod(method) == Max2(0, Min2(6, method))

\* the exception save_image raises for the one image.save raised
SaveImageError(kind) == IF kind = "ValueError" THEN "ValueError" ELSE "IOError"

save_image(image, output_path, format0, quality0, strict) ==
    LET format  == IF format0 = None THEN FormatOfExtension(output_path) ELSE format0
        quality == ClampQuality(quality0)
        save_args ==
            IF format # None /\ The(format) \in {"JPEG", "WEBP"}
            THEN [quality |-> Some(quality), method |-> None]
            ELSE [quality |-> None, method |-> None]
        saved ==
            IF TruthyStr(format)
            THEN PilSave(IF The(format) = "JPEG" /\ image.mode \notin {"RGB", "L"}
                         THEN [image EXCEPT !.mode = "RGB"] ELSE image,
                         output_path, format, save_args, strict)
            ELSE PilSave(image, output_path, None,
                         [quality |-> None, method |-> None], strict)
    IN  IF saved.ok THEN saved
        ELSE [saved EXCEPT !.error = SaveImageError(saved.error)]

\* ColorMode.value
ColorModes == {"rgb", "rgba", "L"}

convert_color(image, target_mode) ==
    IF image.mode = target_mode
    THEN [ok |-> TRUE, image |-> image]
    ELSE PilConvert(image, target_mode)

(***************************************************************************)
(* _convert_image.convert.  The call is [image_path, output_path, resize,  *)
(* resize_mode, color_mode, buckets, format, quality]; the stages follow   *)
(* the body of the try block, each handing on [ok, image, ...] or the      *)
(* exception raised.  convert returns the result record together with the  *)
(* image.save calls made and what the save left at the output path.        *)
(***************************************************************************)
\* a call of a geometry function of _image_processor made by convert: the
\* size of the image handed over and the bucket found or the resize target
GeometryCall(name, size, target) == [event |-> name, size |-> size, target |-> target]

\* a stage that raised, after the calls it made
Failed(error, calls) == [ok |-> FALSE, error |-> error, calls |-> calls]

\* BucketStage without the test of the resize mode
BucketStageAnyMode(image, a) ==
    IF TruthySeq(a.buckets)
    THEN CHOOSE r \in
        {IF ~found.ok
         THEN Failed(found.error, <<GeometryCall("find_closest_bucket", image.size, <<>>)>>)
         ELSE IF a.resize = None
         THEN [ok |-> TRUE, image |-> image, target_size |-> Some(found.bucket),
               bucket |-> Some(found.bucket),
               calls |-> <<GeometryCall("find_closest_bucket", image.size,
                                        found.bucket)>>]
         ELSE CHOOSE q \in
             {IF resized.ok
              THEN [ok |-> TRUE, image |-> [image EXCEPT !.size = resized.size],
                    target_size |-> a.resize, bucket |-> Some(found.bucket),
                    calls |-> <<GeometryCall("find_closest_bucket", image.size,
                                             found.bucket),
                                GeometryCall("resize_image", image.size,
                                             found.bucket)>>]
              ELSE Failed(resized.error,
                          <<GeometryCall("find_closest_bucket", image.size,
                                         found.bucket),
                            GeometryCall("resize_image", image.size,
                                         found.bucket)>>) :
              resized \in {resize_image(image.size, found.bucket, a.resize_mode)}} : TRUE :
         found \in {find_closest_bucket(image.size[1], image.size[2],
                                        The(a.buckets))}} : TRUE
    ELSE [ok |-> TRUE, image |-> image, target_size |-> a.resize, bucket |-> None,
          calls |-> <<>>]

\* lines 73-84: the bucket stage; target_size is what line 87 tests
BucketStage(image, a) ==
    IF TruthySeq(a.buckets) /\ (a.resize = None \/ a.resize_mode # "proportional")
    THEN CHOOSE r \in
        {IF ~found.ok
         THEN Failed(found.error, <<GeometryCall("find_closest_bucket", image.size, <<>>)>>)
         ELSE IF a.resize = None
         THEN [ok |-> TRUE, image |-> image, target_size |-> Some(found.bucket),
               bucket |-> Some(found.bucket),
               calls |-> <<GeometryCall("find_closest_bucket", image.size,
                                        found.bucket)>>]
         ELSE CHOOSE q \in
             {IF resized.ok
              THEN [ok |-> TRUE, image |-> [image EXCEPT !.size = resized.size],
                    target_size |-> a.resize, bucket |-> Some(found.bucket),
                    calls |-> <<GeometryCall("find_closest_bucket", image.size,
                                             found.bucket),
                                GeometryCall("resize_image", image.size,
                                             found.bucket)>>]
              ELSE Failed(resized.error,
                          <<GeometryCall("find_closest_bucket", image.size,
                                         found.bucket),
                            GeometryCall("resize_image", image.size,
                                         found.bucket)>>) :
              resized \in {resize_image(image.size, found.bucket, a.resize_mode)}} : TRUE :
         found \in {find_closest_bucket(image.size[1], image.size[2],
                                        The(a.buckets))}} : TRUE
    ELSE [ok |-> TRUE, image |-> image, target_size |-> a.resize, bucket |-> None,
          calls |-> <<>>]

\* lines 86-89
ResizeStage(s0, a) ==
    CHOOSE r \in
        {IF ~s.ok THEN s
         ELSE IF TruthySeq(s.target_size) /\ s.image.size # The(s.target_size)
         THEN CHOOSE q \in
             {IF resized.ok
              THEN [s EXCEPT !.image.size = resized.size,
                             !.calls = Append(@, GeometryCall("resize_image",
                                                 s.image.size, The(s.target_size)))]
              ELSE Failed(resized.error,
                          Append(s.calls, GeometryCall("resize_image", s.image.size,
                                                       The(s.target_size)))) :
              resized \in {resize_image(s.image.size, The(s.target_size),
                                        a.resize_mode)}} : TRUE
         ELSE s :
         s \in {s0}} : TRUE

\* lines 91-94
ColorStage(s0, a) ==
    CHOOSE r \in
        {IF ~s.ok THEN s
         ELSE IF a.color_mode # None
         THEN LET converted == convert_color(s.image, The(a.color_mode))
              IN  IF converted.ok
                  THEN [s EXCEPT !.image = converted.image]
                  ELSE Failed(converted.error, s.calls)
         ELSE s :
         s \in {s0}} : TRUE

\* lines 100-105: the output path
OutputPath(a) ==
    IF a.output_path = None
    THEN IF TruthyStr(a.format)
         THEN Path(a.image_path.dir, Append(a.image_path.base, "_converted"),
                   IF Lower(The(a.format)) # "jpeg"
                   THEN Lower(The(a.format)) ELSE "jpg")
         ELSE Path(a.image_path.dir, Append(a.image_path.base, "_converted"),
                   a.image_path.ext)
    ELSE The(a.output_path)

\* lines 98, 107-113: the output format
OutputFormat(a) ==
    IF a.format = None THEN FormatOfExtension(OutputPath(a)) ELSE a.format

\* lines 115-122: the mode the image is saved in
CompatibleMode(output_format, mode) ==
    LET for_jpeg == IF output_format \in {Some("JPEG"), Some("JPG")}
                       /\ mode \notin {"RGB", "L"}
                    THEN "RGB" ELSE mode
    IN  IF output_format = Some("WEBP") /\ for_jpeg \notin {"RGB", "RGBA"}
        THEN "RGB" ELSE for_jpeg

\* ConvertFailure without the except branch: the exception reaches the caller
ConvertPropagates(image_path, error) == Raised(error)

\* the record of the except branch, lines 157-163
ConvertFailure(image_path, error) ==
    [success |-> FALSE, input_path |-> image_path, error |-> error]

\* lines 124-155
SaveStage(s0, original_size, a, strict) ==
    CHOOSE r \in
        {IF ~s.ok
         THEN [result |-> ConvertFailure(a.image_path, s.error),
               saves |-> <<>>, effect |-> "none", output_path |-> OutputPath(a),
               calls |-> s.calls]
         ELSE LET output_path   == OutputPath(a)
                  output_format == OutputFormat(a)
                  image == [s.image EXCEPT
                               !.mode = CompatibleMode(output_format, s.image.mode)]
                  saved == save_image(image, output_path, output_format,
                                      a.quality, strict)
                  final_format ==
                      IF TruthyStr(output_format) THEN The(output_format)
                      ELSE Upper(output_path.ext)
              IN  IF ~saved.ok
                  THEN [result |-> ConvertFailure(a.image_path, saved.error),
                        saves |-> <<saved.call>>, effect |-> saved.effect,
                        output_path |-> output_path, calls |-> s.calls]
                  ELSE [result |->
                            [success |-> TRUE,
                             input_path |-> a.image_path,
                             output_path |-> output_path,
                             original_size |-> original_size,
                             final_size |-> image.size,
                             mode |-> image.mode,
                             format |-> IF final_format = "JPG"
                                        THEN "JPEG" ELSE final_format],
                        saves |-> <<saved.call>>, effect |-> "written",
                        file |-> saved.file, output_path |-> output_path,
                        calls |-> s.calls] :
         s \in {s0}} : TRUE

convert(files, a, strict) ==
    LET opened == read_image(files, a.image_path)
    IN  IF ~opened.ok
        THEN [result |-> ConvertFailure(a.image_path, opened.error),
              saves |-> <<>>, effect |-> "none", output_path |-> OutputPath(a),
              calls |-> <<>>]
        ELSE SaveStage(ColorStage(ResizeStage(BucketStage(opened.image, a), a), a),
                       opened.image.size, a, strict)

(***************************************************************************)
(* _convert_image.convert_to_webp.  The call is [image_path, output_path,  *)
(* size, quality, only_shrink, method].  It returns the output path or     *)
(* None, never raises, and hands quality and method to image.save as they  *)
(* came.  utime: the output's mtime after os.utime, when that was reached. *)
(***************************************************************************)
WebpFailure(saves, effect) ==
    [result |-> None, saves |-> saves, effect |-> effect, encoded |-> FALSE]

\* SkipTest with the comparison of the two times turned round
SkipTestOlder(files, a) ==
    IF ~Exists(files, a.output_path) THEN [ok |-> TRUE, skip |-> FALSE]
    ELSE IF ~Exists(files, a.image_path) THEN Raised("FileNotFoundError")
    ELSE [ok |-> TRUE,
          skip |-> files[a.output_path].mtime < files[a.image_path].mtime]

\* line 235: os.path.exists(output_path) and getmtime(output) > getmtime(input)
SkipTest(files, a) ==
    IF ~Exists(files, a.output_path) THEN [ok |-> TRUE, skip |-> FALSE]
    ELSE IF ~Exists(files, a.image_path) THEN Raised("FileNotFoundError")
    ELSE [ok |-> TRUE,
          skip |-> files[a.output_path].mtime > files[a.image_path].mtime]

\* lines 239-251
WebpResizeStage(files, a) ==
    LET opened == read_image(files, a.image_path)
    IN  IF ~opened.ok THEN opened
        ELSE IF a.size = None THEN opened
        ELSE CHOOSE r \in
            {IF resized.ok
             THEN [ok |-> TRUE, image |-> [opened.image EXCEPT !.size = resized.size]]
             ELSE Raised(resized.error) :
             resized \in {resize_by_short_edge(opened.image.size, The(a.size),
                                               a.only_shrink)}} : TRUE

\* lines 253-288
WebpSaveStage(s0, files, a, strict) ==
    CHOOSE r \in
        {IF ~s.ok THEN WebpFailure(<<>>, "none")
         ELSE LET image == IF s.image.mode \notin {"RGB", "RGBA"}
                           THEN [s.image EXCEPT !.mode = "RGB"] ELSE s.image
                  saved == PilSave(image, a.output_path, Some("WEBP"),
                                   [quality |-> Some(a.quality),
                                    method |-> Some(a.method)], strict)
              IN  IF ~saved.ok THEN WebpFailure(<<saved.call>>, saved.effect)
                  ELSE [result |-> Some(a.output_path), saves |-> <<saved.call>>,
                        effect |-> "written", encoded |-> TRUE,
                        file |-> saved.file,
                        utime |-> Some(files[a.image_path].mtime)] :
         s \in {s0}} : TRUE

convert_to_webp(files, a, strict) ==
    LET test == SkipTest(files, a)
    IN  IF ~test.ok THEN WebpFailure(<<>>, "none")
        ELSE IF test.skip
        THEN [result |-> Some(a.output_path), saves |-> <<>>, effect |-> "none",
              encoded |-> FALSE]
        ELSE WebpSaveStage(WebpResizeStage(files, a), files, a, strict)

(***************************************************************************)
(* What a call leaves in the file system.  A completed save is a file      *)
(* stamped with the time of the write, or with the time os.utime set.  A   *)
(* save that failed after opening the file leaves a truncated file; a      *)
(* Pillow build that removes a file it created itself leaves nothing.      *)
(***************************************************************************)
SpoiledFile(now) ==
    [decodable |-> FALSE, size |-> <<0, 0>>, mode |-> "", format |-> "",
     mtime |-> now]

Stamped(file, mtime) ==
    [decodable |-> file.decodable, size |-> file.size, mode |-> file.mode,
     format |-> file.format, mtime |-> mtime]

FilesAfter(files, path, r, now, build) ==
    CASE r.effect = "written" ->
             WriteFile(files, path,
                       Stamped(r.file, IF "utime" \in DOMAIN r /\ r.utime # None
                                       THEN The(r.utime) ELSE now))
      [] r.effect = "spoiled" ->
             IF Exists(files, path) \/ ~build.removes_failed_output
             THEN WriteFile(files, path, SpoiledFile(now))
             ELSE files
      [] OTHER -> files

(***************************************************************************)
(* The geometry functions called on their own.                             *)
(***************************************************************************)
Dims == 1..MaxDim
Sizes == Dims \X Dims

ResizeCalls ==
    {[image |-> s, target_size |-> t, mode |-> m] :
        s \in Sizes, t \in Sizes, m \in ResizeModes}

ShortEdgeCalls ==
    {[image |-> s, size |-> n, only_shrink |-> o] :
        s \in Sizes, n \in Dims, o \in BOOLEAN}

BucketSizes == (1..MaxBucketDim) \X (1..MaxBucketDim)

RECURSIVE ListsUpTo(_, _)
ListsUpTo(S, n) ==
    IF n = 0 THEN {<<>>}
    ELSE LET shorter == ListsUpTo(S, n - 1)
         IN  shorter \cup {Append(l, x) : l \in {k \in shorter : Len(k) = n - 1}, x \in S}

\* the buckets of the documented example: 4:3 and 16:9, the image 16:9
ExampleBucketCall ==
    [width |-> 16, height |-> 9, buckets |-> <<<<4, 3>>, <<16, 9>>>>]

BucketCalls ==
    {[width |-> s[1], height |-> s[2], buckets |-> b] :
        s \in BucketSizes, b \in ListsUpTo(BucketSizes, MaxBuckets)}
    \cup {ExampleBucketCall}

(***************************************************************************)
(* convert and convert_to_webp called on a file system.                    *)
(***************************************************************************)
ImageModes == {"RGB", "RGBA", "L", "P", "CMYK"}

\* quality and method values a caller may pass, inside and outside the ranges
Qualities == {-3, 0, 1, 85, 100, 101, 300}
Methods == {-1, 0, 4, 6, 7}

\* format names a caller may pass, and the extensions of the paths
FormatNames == {"JPEG", "jpeg", "JPG", "jpg", "PNG", "WEBP", "webp", "DAT"}
InputExts == {"", "jpg", "JPG", "png", "webp", "dat"}
OutputExts == {"", "jpg", "jpeg", "PNG", "webp", "dat"}

\* the Pillow builds: whether an out-of-range WebP configuration is rejected,
\* and whether a file created by a failed save is removed
PillowBuilds ==
    [rejects_bad_webp_config : BOOLEAN, removes_failed_output : BOOLEAN]

SourcePath(ext) == Path("src", <<"a">>, ext)

\* the format Pillow reports for a decoded file of that extension
SourceFormat(ext) ==
    IF PilExtensionFormat(Lower(ext)) = None THEN "JPEG"
    ELSE The(PilExtensionFormat(Lower(ext)))

ImageFile(size, mode, format, mtime) ==
    [decodable |-> TRUE, size |-> size, mode |-> mode, format |-> format,
     mtime |-> mtime]

CorruptFile(mtime) ==
    [decodable |-> FALSE, size |-> <<0, 0>>, mode |-> "", format |-> "",
     mtime |-> mtime]

NoFiles == [p \in {} |-> CorruptFile(0)]

OneFile(path, file) == WriteFile(NoFiles, path, file)

ConvertCall(image_path, output_path, resize, resize_mode, color_mode, buckets, format, quality) ==
    [image_path |-> image_path, output_path |-> output_path, resize |-> resize,
     resize_mode |-> resize_mode, color_mode |-> color_mode,
     buckets |-> buckets, format |-> format, quality |-> quality]

OptionalOf(S) == {None} \cup {Some(x) : x \in S}

\* the format, the output path and the input extension vary
FormatCases ==
    {[call |-> ConvertCall(SourcePath(e), o, None, "proportional", None, None,
                           f, 85),
      files |-> OneFile(SourcePath(e), ImageFile(<<2, 2>>, m, SourceFormat(e), 0))] :
        e \in InputExts, m \in ImageModes, f \in OptionalOf(FormatNames),
        o \in OptionalOf({Path("out", <<"b">>, x) : x \in OutputExts})}

\* the quality varies
QualityCases ==
    {[call |-> ConvertCall(SourcePath("png"), o, None, "proportional", None,
                           None, f, q),
      files |-> OneFile(SourcePath("png"), ImageFile(<<2, 2>>, "RGB", "PNG", 0))] :
        q \in Qualities, f \in OptionalOf({"JPEG", "WEBP", "PNG"}),
        o \in OptionalOf({Path("out", <<"b">>, x) : x \in {"", "jpg", "webp", "png"}})}

\* the buckets a caller may pass: none, an empty list, one bucket, two buckets
BucketLists ==
    {None, Some(<<>>), Some(<<<<1, 1>>, <<1, MaxBucketDim>>>>)}
    \cup {Some(<<b>>) : b \in BucketSizes}

ResizeTargets == {None, Some(<<1, 1>>), Some(<<MaxDim, 2>>)}

\* the sizes, the resize target, the resize mode and the buckets vary
GeometryCases ==
    {[call |-> ConvertCall(SourcePath("png"), None, t, rm, None, b, None, 85),
      files |-> OneFile(SourcePath("png"), ImageFile(s, "RGB", "PNG", 0))] :
        s \in Sizes, t \in ResizeTargets, rm \in ResizeModes, b \in BucketLists}

\* the colour mode varies
ColorCases ==
    {[call |-> ConvertCall(SourcePath(e), None, None, "proportional", c, None,
                           f, 85),
      files |-> OneFile(SourcePath(e), ImageFile(<<2, 2>>, m, SourceFormat(e), 0))] :
        e \in {"jpg", "png"}, m \in ImageModes, c \in OptionalOf(ColorModes),
        f \in OptionalOf({"JPEG", "WEBP", "PNG"})}

\* the source is missing or cannot be decoded
BrokenCases ==
    {[call |-> ConvertCall(SourcePath("jpg"), None, None, "proportional", None,
                           b, None, 85),
      files |-> fl] :
        b \in {None, Some(<<>>)},
        fl \in {NoFiles, OneFile(SourcePath("jpg"), CorruptFile(0))}}

ConvertCases ==
    FormatCases \cup QualityCases \cup GeometryCases \cup ColorCases
    \cup BrokenCases

\* the main thread's position and locals
Main(pc) ==
    [pc |-> pc, finished |-> <<>>, pending |-> {}, results |-> <<>>,
     processed_count |-> 0, success_count |-> 0, progress |-> <<>>]

\* the state outside a call of convert or convert_to_webp: no files, no events
Quiet ==
    /\ fs = NoFiles
    /\ clock = 0
    /\ encoder = <<>>
    /\ history = <<>>
    /\ pillow = [rejects_bad_webp_config |-> TRUE, removes_failed_output |-> TRUE]
    /\ pool = <<>>
    /\ main = Main("idle")
    /\ waiter = <<>>

InitGeom ==
    /\ \/ fn = "resize_image" /\ args \in ResizeCalls
       \/ fn = "resize_by_short_edge" /\ args \in ShortEdgeCalls
    /\ ret = NoReturn
    /\ Quiet

CallResizeImage ==
    /\ fn = "resize_image"
    /\ ret = NoReturn
    /\ ret' = resize_image(args.image, args.target_size, args.mode)
    /\ UNCHANGED <<fn, args, fs, clock, encoder, history, pillow, pool, main, waiter>>

CallResizeByShortEdge ==
    /\ fn = "resize_by_short_edge"
    /\ ret = NoReturn
    /\ ret' = resize_by_short_edge(args.image, args.size, args.only_shrink)
    /\ UNCHANGED <<fn, args, fs, clock, encoder, history, pillow, pool, main, waiter>>

NextGeom == CallResizeImage \/ CallResizeByShortEdge

SpecGeom == InitGeom /\ [][NextGeom]_vars

InitBucket ==
    /\ fn = "find_closest_bucket"
    /\ args \in BucketCalls
    /\ ret = NoReturn
    /\ Quiet

CallFindClosestBucket ==
    /\ fn = "find_closest_bucket"
    /\ ret = NoReturn
    /\ ret' = find_closest_bucket(args.width, args.height, args.buckets)
    /\ UNCHANGED <<fn, args, fs, clock, encoder, history, pillow, pool, main, waiter>>

NextBucket == CallFindClosestBucket

SpecBucket == InitBucket /\ [][NextBucket]_vars

InitConvert ==
    /\ fn = "convert"
    /\ \E c \in ConvertCases : args = c.call /\ fs = c.files
    /\ ret = NoReturn
    /\ clock = 1
    /\ encoder = <<>>
    /\ history = <<>>
    /\ pillow \in PillowBuilds
    /\ pool = <<>>
    /\ main = Main("idle")
    /\ waiter = <<>>

\* one call of convert: the result, the image.save calls and the output file
CallConvert ==
    /\ fn = "convert"
    /\ ret = NoReturn
    /\ \E d \in {0, 1}, r \in {convert(fs, args, pillow.rejects_bad_webp_config)} :
          /\ clock' = clock + d
          /\ ret' = r.result
          /\ encoder' = encoder \o r.saves
          /\ fs' = FilesAfter(fs, r.output_path, r, clock + d, pillow)
          /\ history' = history \o r.calls
    /\ UNCHANGED <<fn, args, pillow, pool, main, waiter>>

NextConvert == CallConvert

SpecConvert == InitConvert /\ [][NextConvert]_vars

(***************************************************************************)
(* convert called on its own output: a first call that succeeded is        *)
(* followed by a call with the same parameters whose input is the first    *)
(* call's output file.  history keeps the first call and its result       *)
(* between the geometry calls of the two.                                  *)
(***************************************************************************)
\* two buckets as near to a 2x3 image, and the image after the first pass
TiedBuckets == Some(<<<<1, 2>>, <<2, 2>>>>)

ReconvertCases ==
    GeometryCases \cup ColorCases
    \cup {[call |-> ConvertCall(SourcePath("png"), o, None, rm, None, TiedBuckets,
                                None, 85),
           files |-> OneFile(SourcePath("png"), ImageFile(s, "RGB", "PNG", 0))] :
             s \in Sizes, rm \in ResizeModes,
             o \in {None, Some(Path("out", <<"b">>, "png"))}}
    \cup {[call |-> ConvertCall(SourcePath("png"), None, None, "proportional",
                                None, None, f, 85),
           files |-> OneFile(SourcePath("png"), ImageFile(<<2, 2>>, m, "PNG", 0))] :
             m \in {"RGB", "RGBA", "L", "P"}, f \in {Some("webp"), Some("WEBP")}}

InitReconvert ==
    /\ fn = "convert"
    /\ \E c \in ReconvertCases : args = c.call /\ fs = c.files
    /\ ret = NoReturn
    /\ clock = 1
    /\ encoder = <<>>
    /\ history = <<>>
    /\ pillow \in PillowBuilds
    /\ pool = <<>>
    /\ main = Main("idle")
    /\ waiter = <<>>

\* the second call: the parameters of the first, the input its output
CallConvertAgain ==
    /\ fn = "convert"
    /\ ret # NoReturn
    /\ \A i \in 1..Len(history) : history[i].event # "convert"
    /\ ret.success
    /\ \E d \in {0, 1}, a \in {[args EXCEPT !.image_path = ret.output_path]} :
          \E r \in {convert(fs, a, pillow.rejects_bad_webp_config)} :
              /\ args' = a
              /\ history' = Append(history, [event |-> "convert", call |-> args,
                                              result |-> ret]) \o r.calls
              /\ clock' = clock + d
              /\ ret' = r.result
              /\ encoder' = encoder \o r.saves
              /\ fs' = FilesAfter(fs, r.output_path, r, clock + d, pillow)
    /\ UNCHANGED <<fn, pillow, pool, main, waiter>>

NextReconvert == CallConvert \/ CallConvertAgain

SpecReconvert == InitReconvert /\ [][NextReconvert]_vars

WebpCall(size, quality, only_shrink, method) ==
    [image_path |-> SourcePath("jpg"), output_path |-> Path("out", <<"a">>, "webp"),
     size |-> size, quality |-> quality, only_shrink |-> only_shrink,
     method |-> method]

\* the output before the first call: absent, or older than, as old as or
\* newer than the source (whose mtime is 1)
OutputsBefore(files) ==
    {files} \cup
    {WriteFile(files, Path("out", <<"a">>, "webp"),
               ImageFile(<<1, 1>>, "RGB", "WEBP", t)) : t \in 0..2}

WebpSource(file) == OneFile(SourcePath("jpg"), file)

WebpCases ==
    {[call |-> WebpCall(None, q, TRUE, m), files |-> fl] :
        q \in Qualities, m \in Methods,
        fl \in OutputsBefore(WebpSource(ImageFile(<<2, 2>>, "RGB", "JPEG", 1)))}
    \cup
    {[call |-> WebpCall(n, 85, o, 4), files |-> WebpSource(ImageFile(s, "RGB", "JPEG", 1))] :
        n \in OptionalOf(Dims), o \in BOOLEAN, s \in Sizes}
    \cup
    {[call |-> WebpCall(None, 85, TRUE, 4), files |-> fl] :
        fl \in OutputsBefore(NoFiles)
               \cup OutputsBefore(WebpSource(CorruptFile(1)))
               \cup UNION {OutputsBefore(WebpSource(ImageFile(<<2, 2>>, m, "JPEG", 1))) :
                               m \in ImageModes}}

InitWebp ==
    /\ fn = "convert_to_webp"
    /\ \E c \in WebpCases : args = c.call /\ fs = c.files
    /\ ret = NoReturn
    /\ clock = 2
    /\ encoder = <<>>
    /\ history = <<>>
    /\ pillow \in PillowBuilds
    /\ pool = <<>>
    /\ main = Main("idle")
    /\ waiter = <<>>

\* one call of convert_to_webp with the same arguments as the last
CallConvertToWebp ==
    /\ fn = "convert_to_webp"
    /\ Len(history) < MaxEvents
    /\ \E d \in {0, 1},
          r \in {convert_to_webp(fs, args, pillow.rejects_bad_webp_config)} :
          /\ clock' = clock + d
          /\ ret' = [value |-> r.result]
          /\ encoder' = encoder \o r.saves
          /\ fs' = FilesAfter(fs, args.output_path, r, clock + d, pillow)
          /\ history' = Append(history,
                 [event |-> "convert_to_webp",
                  output_existed |-> Exists(fs, args.output_path),
                  returned |-> r.result, encoded |-> r.encoded])
    /\ UNCHANGED <<fn, args, pillow, pool, main, waiter>>

\* somebody rewrites the source file between two calls
ModifySource ==
    /\ fn = "convert_to_webp"
    /\ Len(history) < MaxEvents
    /\ Exists(fs, args.image_path)
    /\ clock' = clock + 1
    /\ fs' = WriteFile(fs, args.image_path,
                       Stamped(fs[args.image_path], clock + 1))
    /\ history' = Append(history, [event |-> "modify_source"])
    /\ UNCHANGED <<fn, args, ret, encoder, pillow, pool, main, waiter>>

NextWebp == CallConvertToWebp \/ ModifySource

SpecWebp == InitWebp /\ [][NextWebp]_vars

(***************************************************************************)
(* _convert_image.batch_convert.  The call is [image_paths, output_dir,    *)
(* workers, kwargs]; kwargs is [given, format, buckets], given being the   *)
(* keyword names the caller passed.  A task is process_image run by a      *)
(* worker thread of the ThreadPoolExecutor; the main thread submits the    *)
(* tasks in order and then consumes concurrent.futures.as_completed.       *)
(***************************************************************************)
\* format_ext_map.get(format_name, "." + format_name.lower()), without the dot
FormatExt(format_name) ==
    CASE format_name = "JPEG" -> "jpg"
      [] format_name = "PNG"  -> "png"
      [] format_name = "WEBP" -> "webp"
      [] OTHER -> Lower(format_name)

\* the keyword arguments convert accepts
ConvertKeywords == {"format", "buckets"}

\* lines 343-360: what the future of one task holds, and what the task did
process_image(files, image_path, output_dir, kwargs, strict) ==
    IF TruthyStr(output_dir) /\ "format" \in kwargs.given /\ kwargs.format = None
    THEN [raised |-> TRUE, error |-> "AttributeError", saves |-> <<>>,
          effect |-> "none", output_path |-> None]
    ELSE IF ~(kwargs.given \subseteq ConvertKeywords)
    THEN [raised |-> TRUE, error |-> "TypeError", saves |-> <<>>,
          effect |-> "none", output_path |-> None]
    ELSE CHOOSE t \in
        {IF r.effect = "written"
         THEN [raised |-> FALSE, result |-> r.result, saves |-> r.saves,
               effect |-> r.effect, output_path |-> Some(r.output_path),
               file |-> r.file]
         ELSE [raised |-> FALSE, result |-> r.result, saves |-> r.saves,
               effect |-> r.effect, output_path |-> Some(r.output_path)] :
         r \in {convert(files,
                    ConvertCall(image_path,
                        IF TruthyStr(output_dir)
                        THEN IF "format" \in kwargs.given
                             THEN Some(Path(The(output_dir), image_path.base,
                                            FormatExt(The(kwargs.format))))
                             ELSE Some(Path(The(output_dir),
                                            Append(image_path.base, "_converted"),
                                            image_path.ext))
                        ELSE None,
                        None, "proportional", None,
                        IF "buckets" \in kwargs.given THEN kwargs.buckets ELSE None,
                        IF "format" \in kwargs.given THEN kwargs.format ELSE None,
                        85),
                    strict)}} : TRUE

\* lines 420-427: the record of the except branch
BatchFailure(image_path, error) ==
    [success |-> FALSE, input_path |-> image_path, error |-> error]

\* CollectFuture with an except branch that only logs the error
CollectFutureLogOnly(m, future, total_images, due) ==
    IF future.outcome.raised
    THEN m
    ELSE [m EXCEPT
             !.results = Append(@, future.outcome.result),
             !.success_count =
                 IF future.outcome.result.success THEN @ + 1 ELSE @,
             !.processed_count = @ + 1,
             !.progress =
                 IF due \/ m.processed_count + 1 = 1
                        \/ m.processed_count + 1 = total_images
                 THEN Append(@, m.processed_count + 1) ELSE @]

\* CollectFuture with a circuit breaker: once a result has failed, every
\* later future is recorded as failed
CollectFutureFailFast(m, future, total_images, due) ==
    IF future.outcome.raised \/ \E i \in 1..Len(m.results) : ~m.results[i].success
    THEN [m EXCEPT !.results = Append(@, BatchFailure(future.path, "cancelled"))]
    ELSE [m EXCEPT
             !.results = Append(@, future.outcome.result),
             !.success_count =
                 IF future.outcome.result.success THEN @ + 1 ELSE @,
             !.processed_count = @ + 1,
             !.progress =
                 IF due \/ m.processed_count + 1 = 1
                        \/ m.processed_count + 1 = total_images
                 THEN Append(@, m.processed_count + 1) ELSE @]

\* the body of the loop over as_completed for one future, lines 373-427:
\* due is "current_time - last_update_time >= progress_update_interval"
CollectFuture(m, future, total_images, due) ==
    IF future.outcome.raised
    THEN [m EXCEPT !.results =
              Append(@, BatchFailure(future.path, future.outcome.error))]
    ELSE LET processed_count == m.processed_count + 1
         IN  [m EXCEPT
                 !.results = Append(@, future.outcome.result),
                 !.success_count =
                     IF future.outcome.result.success THEN @ + 1 ELSE @,
                 !.processed_count = processed_count,
                 !.progress =
                     IF due \/ processed_count = 1 \/ processed_count = total_images
                     THEN Append(@, processed_count) ELSE @]

\* the orders in which as_completed may yield a set of finished futures
RECURSIVE Orders(_)
Orders(S) ==
    IF S = {} THEN {<<>>}
    ELSE UNION {{<<x>> \o o : o \in Orders(S \ {x})} : x \in S}

Range(s) == {s[i] : i \in 1..Len(s)}

(***************************************************************************)
(* batch_convert called on a file system.                                  *)
(***************************************************************************)
GoodPath == Path("src", <<"a">>, "png")
CorruptPath == Path("src", <<"b">>, "png")
OtherPath == Path("sub", <<"a">>, "jpg")

BatchFiles ==
    WriteFile(WriteFile(OneFile(GoodPath, ImageFile(<<2, 2>>, "RGB", "PNG", 0)),
                        CorruptPath, CorruptFile(0)),
              OtherPath, ImageFile(<<2, 1>>, "L", "JPEG", 0))

Kwargs(given, format, buckets) ==
    [given |-> given, format |-> format, buckets |-> buckets]

\* no options; a format; format=None; buckets=[]; an option convert lacks
KwargsCases ==
    {Kwargs({}, None, None),
     Kwargs({"format"}, Some("JPEG"), None),
     Kwargs({"format"}, None, None),
     Kwargs({"buckets"}, None, Some(<<>>)),
     Kwargs({"bogus"}, None, None)}

WorkerCounts == {1, 2}

BatchCall(image_paths, output_dir, workers, kwargs) ==
    [image_paths |-> image_paths, output_dir |-> output_dir,
     workers |-> workers, kwargs |-> kwargs]

BatchCalls ==
    {BatchCall(l, None, w, Kwargs({}, None, None)) :
        l \in ListsUpTo({GoodPath, CorruptPath, OtherPath}, MaxPaths),
        w \in WorkerCounts}
    \cup
    {BatchCall(l, d, w, k) :
        l \in ListsUpTo({GoodPath, CorruptPath, OtherPath}, 2),
        d \in {None, Some("out")}, w \in WorkerCounts, k \in KwargsCases}

InitBatch ==
    /\ fn = "batch_convert"
    /\ args \in BatchCalls
    /\ ret = NoReturn
    /\ fs = BatchFiles
    /\ clock = 1
    /\ encoder = <<>>
    /\ history = <<>>
    /\ pillow \in {[rejects_bad_webp_config |-> TRUE, removes_failed_output |-> TRUE]}
    /\ pool = <<>>
    /\ main = Main("start")
    /\ waiter = <<>>

TotalImages == Len(args.image_paths)

\* lines 314-316: nothing to do for an empty list
ReturnEmpty ==
    /\ fn = "batch_convert"
    /\ main.pc = "start"
    /\ args.image_paths = <<>>
    /\ main' = [main EXCEPT !.pc = "done"]
    /\ ret' = [value |-> <<>>]
    /\ UNCHANGED <<fn, args, fs, clock, encoder, history, pillow, pool, waiter>>

\* lines 318-367: the pool is created
OpenPool ==
    /\ fn = "batch_convert"
    /\ main.pc = "start"
    /\ args.image_paths # <<>>
    /\ main' = [main EXCEPT !.pc = "submit"]
    /\ UNCHANGED <<fn, args, ret, fs, clock, encoder, history, pillow, pool, waiter>>

\* line 369: executor.submit(process_image, path) for the next path
Submit ==
    /\ main.pc = "submit"
    /\ Len(pool) < TotalImages
    /\ pool' = Append(pool, [path |-> args.image_paths[Len(pool) + 1],
                             state |-> "queued"])
    /\ UNCHANGED <<fn, args, ret, fs, clock, encoder, history, pillow, main, waiter>>

\* history of a batch run: the tasks in the order they finished, and this
\* mark where as_completed took the futures already finished
AsCompletedStarts == 0

Running == {i \in 1..Len(pool) : pool[i].state = "running"}

\* a worker thread takes the oldest work item of the queue
StartTask(i) ==
    /\ pool[i].state = "queued"
    /\ \A j \in 1..(i - 1) : pool[j].state # "queued"
    /\ Cardinality(Running) < args.workers
    /\ pool' = [pool EXCEPT ![i].state = "running"]
    /\ UNCHANGED <<fn, args, ret, fs, clock, encoder, history, pillow, main, waiter>>

\* the worker runs process_image and sets the future; a waiter installed by
\* as_completed is told
FinishTask(i) ==
    /\ pool[i].state = "running"
    /\ \E t \in {process_image(fs, pool[i].path, args.output_dir, args.kwargs,
                               pillow.rejects_bad_webp_config)} :
          /\ pool' = [pool EXCEPT ![i] = [path |-> pool[i].path,
                                          state |-> "finished",
                                          outcome |-> IF t.raised
                                              THEN [raised |-> TRUE, error |-> t.error]
                                              ELSE [raised |-> FALSE,
                                                    result |-> t.result]]]
          /\ encoder' = encoder \o t.saves
          /\ fs' = IF t.output_path = None THEN fs
                   ELSE FilesAfter(fs, The(t.output_path), t, clock + 1, pillow)
    /\ clock' = clock + 1
    /\ waiter' = IF i \in main.pending THEN Append(waiter, i) ELSE waiter
    /\ history' = Append(history, i)
    /\ UNCHANGED <<fn, args, ret, pillow, main>>

\* line 372: as_completed takes the futures already finished, in any order,
\* and installs a waiter on the others
AsCompleted ==
    /\ main.pc = "submit"
    /\ Len(pool) = TotalImages
    /\ \E o \in Orders({i \in 1..Len(pool) : pool[i].state = "finished"}) :
          main' = [main EXCEPT !.pc = "collect", !.finished = o,
                               !.pending = (1..Len(pool)) \ Range(o)]
    /\ history' = Append(history, AsCompletedStarts)
    /\ UNCHANGED <<fn, args, ret, fs, clock, encoder, pillow, pool, waiter>>

\* lines 373-427: the loop body for the next future as_completed yields
Collect ==
    /\ main.pc = "collect"
    /\ main.finished # <<>>
    /\ \E due \in BOOLEAN :
          main' = [CollectFuture(main, pool[Head(main.finished)], TotalImages, due)
                      EXCEPT !.finished = Tail(main.finished)]
    /\ UNCHANGED <<fn, args, ret, fs, clock, encoder, history, pillow, pool, waiter>>

Reverse(s) == [i \in 1..Len(s) |-> s[(Len(s) + 1) - i]]

\* Wake without finished.reverse(): the futures come out last finished first
WakeReversed ==
    /\ main.pc = "collect"
    /\ main.finished = <<>>
    /\ waiter # <<>>
    /\ main' = [main EXCEPT !.finished = Reverse(waiter), !.pending = @ \ Range(waiter)]
    /\ waiter' = <<>>
    /\ UNCHANGED <<fn, args, ret, fs, clock, encoder, history, pillow, pool>>

\* as_completed wakes up and takes the futures finished meanwhile, in the
\* order they finished
Wake ==
    /\ main.pc = "collect"
    /\ main.finished = <<>>
    /\ waiter # <<>>
    /\ main' = [main EXCEPT !.finished = waiter, !.pending = @ \ Range(waiter)]
    /\ waiter' = <<>>
    /\ UNCHANGED <<fn, args, ret, fs, clock, encoder, history, pillow, pool>>

\* lines 429-444: every future was yielded; the pool shuts down, the list is
\* returned
Return ==
    /\ main.pc = "collect"
    /\ main.finished = <<>>
    /\ main.pending = {}
    /\ main' = [main EXCEPT !.pc = "done"]
    /\ ret' = [value |-> main.results]
    /\ UNCHANGED <<fn, args, fs, clock, encoder, history, pillow, pool, waiter>>

NextBatch ==
    \/ ReturnEmpty
    \/ OpenPool
    \/ Submit
    \/ \E i \in 1..Len(pool) : StartTask(i)
    \/ \E i \in 1..Len(pool) : FinishTask(i)
    \/ AsCompleted
    \/ Collect
    \/ Wake
    \/ Return

SpecBatch == InitBatch /\ [][NextBatch]_vars

(***************************************************************************)
(* _convert_image.batch_convert_to_webp.  Directories are tuples of names; *)
(* the call is [source_dir, output_base_dir, sizes, quality, workers,      *)
(* only_shrink, method, keep_folder_structure].  A task is process_image   *)
(* for one enumerated file: one convert_to_webp call per size, in order.   *)
(***************************************************************************)
IsPrefix(d, dir) == Len(d) <= Len(dir) /\ SubSeq(dir, 1, Len(d)) = d

\* the default of supported_formats, without the dots
SupportedFormats == {"jpg", "jpeg", "png", "bmp", "tiff", "tif", "webp"}

\* lines 507-515: the files os.walk finds under source_dir whose lower-cased
\* extension is supported
EnumeratedFiles(files, source_dir) ==
    {p \in DOMAIN files : IsPrefix(source_dir, p.dir) /\ Lower(p.ext) \in SupportedFormats}

\* lines 488-491
OutputBaseDir(a) ==
    IF a.output_base_dir = None THEN Append(a.source_dir, "webp")
    ELSE The(a.output_base_dir)

\* lines 501-504: output_dirs[size]
SizeDir(a, size) == Append(OutputBaseDir(a), ToString(size) \o "x")

\* a file name that str.encode() rejects (bytes that are not UTF-8)
Unencodable == "\\udcff"

RECURSIVE JoinNames(_)
JoinNames(names) ==
    IF names = <<>> THEN "" ELSE "/" \o Head(names) \o JoinNames(Tail(names))

\* hashlib.md5(image_path.encode()).hexdigest()[:8]: a name of the whole path
PathHash(path) ==
    "md5:" \o JoinNames(path.dir) \o JoinNames(path.base) \o "." \o path.ext

\* lines 543-562: the output path of one (file, size) pair
WebpOutputPath(a, image_path, size) ==
    IF a.keep_folder_structure
    THEN Path(SizeDir(a, size)
                  \o SubSeq(image_path.dir, Len(a.source_dir) + 1, Len(image_path.dir)),
              image_path.base, "webp")
    ELSE Path(SizeDir(a, size),
              image_path.base \o <<"_", PathHash(image_path)>>, "webp")

\* line 560 raises UnicodeEncodeError for a name that cannot be encoded
PathHashRaises(a, image_path) ==
    ~a.keep_folder_structure /\ Unencodable \in Range(image_path.base)

\* lines 565-575: the convert_to_webp call of one (file, size) pair
WebpTaskCall(a, image_path, size) ==
    [image_path |-> image_path, output_path |-> WebpOutputPath(a, image_path, size),
     size |-> Some(size), quality |-> ClampQuality(a.quality),
     only_shrink |-> a.only_shrink, method |-> ClampMethod(a.method)]

\* CollectWebpFuture with an except branch that only logs the error
CollectWebpFutureLogOnly(m, future, sizes, total_images, due) ==
    IF future.raised
    THEN m
    ELSE [m EXCEPT
             !.results =
                 [p \in DOMAIN @ \cup {future.path} |->
                     IF p = future.path THEN future.result ELSE @[p]],
             !.processed_count = @ + 1,
             !.progress =
                 IF due \/ m.processed_count + 1 = 1
                        \/ m.processed_count + 1 = total_images
                 THEN Append(@, m.processed_count + 1) ELSE @]

\* the loop body over as_completed for one future, lines 586-631
CollectWebpFuture(m, future, sizes, total_images, due) ==
    IF future.raised
    THEN [m EXCEPT !.results =
              [p \in DOMAIN @ \cup {future.path} |->
                  IF p = future.path THEN [s \in Range(sizes) |-> None] ELSE @[p]]]
    ELSE LET processed_count == m.processed_count + 1
         IN  [m EXCEPT
                 !.results =
                     [p \in DOMAIN @ \cup {future.path} |->
                         IF p = future.path THEN future.result ELSE @[p]],
                 !.processed_count = processed_count,
                 !.progress =
                     IF due \/ processed_count = 1 \/ processed_count = total_images
                     THEN Append(@, processed_count) ELSE @]

NoResults == [p \in {} |-> None]

\* os.path.getsize: the length of a file, a header and the pixels
GetSize(file) == 1 + (file.size[1] * file.size[2])

\* lines 642-645: the statistics before the loop over the results
NoStatistics(sizes) ==
    [success_count |-> 0, failed_sizes |-> [s \in Range(sizes) |-> 0],
     total_input_size |-> 0, total_output_size |-> 0]

\* lines 655-657: the bytes of the outputs of one image that exist
RECURSIVE OutputBytes(_, _, _)
OutputBytes(left, size_results, files) ==
    IF left = {} THEN 0
    ELSE LET size == CHOOSE s \in left : TRUE
             output_path == size_results[size]
         IN  (IF output_path # None /\ Exists(files, The(output_path))
              THEN GetSize(files[The(output_path)]) ELSE 0)
             + OutputBytes(left \ {size}, size_results, files)

\* Tally that adds the bytes of every image, whether all its sizes succeeded
TallyEveryImage(st, image_path, size_results, files) ==
    [st EXCEPT
        !.success_count =
            IF \A s \in DOMAIN size_results : size_results[s] # None
            THEN @ + 1 ELSE @,
        !.total_input_size =
            IF Exists(files, image_path)
            THEN @ + GetSize(files[image_path]) ELSE @,
        !.total_output_size =
            IF Exists(files, image_path)
            THEN @ + OutputBytes(DOMAIN size_results, size_results, files)
            ELSE @,
        !.failed_sizes =
            [s \in DOMAIN @ |->
                IF s \in DOMAIN size_results /\ size_results[s] = None
                THEN @[s] + 1 ELSE @[s]]]

\* lines 647-661: the loop body for one image of the results
Tally(st, image_path, size_results, files) ==
    IF \A s \in DOMAIN size_results : size_results[s] # None
    THEN [st EXCEPT
             !.success_count = @ + 1,
             !.total_input_size =
                 IF Exists(files, image_path)
                 THEN @ + GetSize(files[image_path]) ELSE @,
             !.total_output_size =
                 IF Exists(files, image_path)
                 THEN @ + OutputBytes(DOMAIN size_results, size_results, files)
                 ELSE @]
    ELSE [st EXCEPT
             !.failed_sizes =
                 [s \in DOMAIN @ |->
                     IF s \in DOMAIN size_results /\ size_results[s] = None
                     THEN @[s] + 1 ELSE @[s]]]

\* lines 641-661: the statistics of the run
RECURSIVE Statistics(_, _, _, _)
Statistics(left, results, files, st) ==
    IF left = {} THEN st
    ELSE LET image_path == CHOOSE p \in left : TRUE
         IN  Statistics(left \ {image_path}, results, files,
                        Tally(st, image_path, results[image_path], files))

\* the main thread's position and locals in batch_convert_to_webp
MainWebp(pc) ==
    [pc |-> pc, image_files |-> <<>>, finished |-> <<>>, pending |-> {},
     results |-> NoResults, processed_count |-> 0, progress |-> <<>>,
     statistics |-> None]

(***************************************************************************)
(* batch_convert_to_webp called on a directory tree.                       *)
(***************************************************************************)
TreeRoot == <<"src">>

\* os.path.exists(source_dir): the tree's root always exists, other
\* directories exist when they hold a file
DirExists(files, dir) ==
    dir = TreeRoot \/ \E p \in DOMAIN files : IsPrefix(dir, p.dir)

TreeFile(dir, name, ext, file) == [path |-> Path(dir, <<name>>, ext), file |-> file]

RECURSIVE TreeOf(_)
TreeOf(entries) ==
    IF entries = <<>> THEN NoFiles
    ELSE WriteFile(TreeOf(Tail(entries)), Head(entries).path, Head(entries).file)

Photo == ImageFile(<<3, 2>>, "RGB", "JPEG", 1)

\* three images, one corrupt, one in a subdirectory; two images of one name
\* and different extensions; an image beside a text file and an image with
\* an upper-case extension; an image whose name is not UTF-8; no file
Trees ==
    {TreeOf(<<TreeFile(<<"src">>, "a", "jpg", Photo),
              TreeFile(<<"src">>, "b", "png", CorruptFile(1)),
              TreeFile(<<"src", "sub">>, "a", "jpg", ImageFile(<<2, 4>>, "P", "JPEG", 1))>>),
     TreeOf(<<TreeFile(<<"src">>, "a", "jpg", Photo),
              TreeFile(<<"src">>, "a", "png", ImageFile(<<2, 2>>, "RGBA", "PNG", 1))>>),
     TreeOf(<<TreeFile(<<"src">>, "a", "JPG", Photo),
              TreeFile(<<"src">>, "notes", "txt", CorruptFile(1))>>),
     TreeOf(<<TreeFile(<<"src">>, Unencodable, "jpg", Photo),
              TreeFile(<<"src">>, "b", "jpg", Photo)>>),
     NoFiles}

SizeValues == {1, 2}

BatchWebpCall(source_dir, output_base_dir, sizes, quality, workers, method, keep_folder_structure) ==
    [source_dir |-> source_dir, output_base_dir |-> output_base_dir,
     sizes |-> sizes, quality |-> quality, workers |-> workers,
     only_shrink |-> TRUE, method |-> method,
     keep_folder_structure |-> keep_folder_structure]

BatchWebpCases ==
    {[call |-> BatchWebpCall(TreeRoot, None, s, 85, w, 4, k), files |-> t] :
        s \in ListsUpTo(SizeValues, MaxSizes), w \in WorkerCounts,
        k \in BOOLEAN, t \in Trees}
    \cup
    {[call |-> BatchWebpCall(d, o, <<2>>, q, 1, m, TRUE), files |-> t] :
        d \in {TreeRoot, <<"nowhere">>}, o \in {None, Some(<<"out">>)},
        q \in {85, 300}, m \in {4, 7},
        t \in {TreeOf(<<TreeFile(<<"src">>, "a", "jpg", Photo)>>)}}

InitBatchWebp ==
    /\ fn = "batch_convert_to_webp"
    /\ \E c \in BatchWebpCases : args = c.call /\ fs = c.files
    /\ ret = NoReturn
    /\ clock = 2
    /\ encoder = <<>>
    /\ history = <<>>
    /\ pillow = [rejects_bad_webp_config |-> TRUE, removes_failed_output |-> TRUE]
    /\ pool = <<>>
    /\ main = MainWebp("start")
    /\ waiter = <<>>

\* lines 483-485: the source directory does not exist
RejectSourceDir ==
    /\ fn = "batch_convert_to_webp"
    /\ main.pc = "start"
    /\ ~DirExists(fs, args.source_dir)
    /\ ret' = Raised("ValueError")
    /\ main' = [main EXCEPT !.pc = "done"]
    /\ UNCHANGED <<fn, args, fs, clock, encoder, history, pillow, pool, waiter>>

\* os.walk is top-down: a directory's files come before those of the
\* directories below it, and the files of one directory come together
WalkOrders(S) ==
    {o \in Orders(S) :
        \A i, j \in 1..Len(o) :
            /\ (IsPrefix(o[i].dir, o[j].dir) /\ o[i].dir # o[j].dir) => i < j
            /\ (i < j /\ o[i].dir = o[j].dir) =>
                   \A k \in i..j : o[k].dir = o[i].dir}

\* lines 487-528: the files are enumerated; with none the call returns {}
Scan ==
    /\ fn = "batch_convert_to_webp"
    /\ main.pc = "start"
    /\ DirExists(fs, args.source_dir)
    /\ \E o \in WalkOrders(EnumeratedFiles(fs, args.source_dir)) :
          IF o = <<>>
          THEN /\ main' = [main EXCEPT !.pc = "done"]
               /\ ret' = [value |-> NoResults]
          ELSE /\ main' = [main EXCEPT !.pc = "submit", !.image_files = o]
               /\ ret' = ret
    /\ UNCHANGED <<fn, args, fs, clock, encoder, history, pillow, pool, waiter>>

\* line 582: executor.submit(process_image, path) for the next file
SubmitWebp ==
    /\ fn = "batch_convert_to_webp"
    /\ main.pc = "submit"
    /\ Len(pool) < Len(main.image_files)
    /\ pool' = Append(pool, [path |-> main.image_files[Len(pool) + 1],
                             state |-> "queued", sizes_left |-> args.sizes,
                             result |-> [s \in {} |-> None], raised |-> FALSE])
    /\ UNCHANGED <<fn, args, ret, fs, clock, encoder, history, pillow, main, waiter>>

\* a worker thread takes the oldest work item of the queue
StartWebpTask(i) ==
    /\ fn = "batch_convert_to_webp"
    /\ pool[i].state = "queued"
    /\ \A j \in 1..(i - 1) : pool[j].state # "queued"
    /\ Cardinality(Running) < args.workers
    /\ pool' = [pool EXCEPT ![i].state = "running"]
    /\ UNCHANGED <<fn, args, ret, fs, clock, encoder, history, pillow, main, waiter>>

\* the future of task i is set; a waiter installed by as_completed is told
Notified(i) == IF i \in main.pending THEN Append(waiter, i) ELSE waiter

\* lines 537-577: the worker runs the next convert_to_webp call of the task;
\* after the last one (or with no size, or when the path hash raises) the
\* future is set
StepWebpTask(i) ==
    /\ fn = "batch_convert_to_webp"
    /\ pool[i].state = "running"
    /\ clock' = clock + 1
    /\ IF pool[i].sizes_left = <<>>
       THEN /\ pool' = [pool EXCEPT ![i].state = "finished"]
            /\ waiter' = Notified(i)
            /\ UNCHANGED <<fs, encoder>>
       ELSE IF PathHashRaises(args, pool[i].path)
       THEN /\ pool' = [pool EXCEPT ![i].state = "finished", ![i].raised = TRUE]
            /\ waiter' = Notified(i)
            /\ UNCHANGED <<fs, encoder>>
       ELSE \E size \in {Head(pool[i].sizes_left)} :
            \E call \in {WebpTaskCall(args, pool[i].path, size)} :
            \E r \in {convert_to_webp(fs, call, pillow.rejects_bad_webp_config)} :
               /\ fs' = FilesAfter(fs, call.output_path, r, clock + 1, pillow)
               /\ encoder' = encoder \o r.saves
               /\ pool' = [pool EXCEPT
                     ![i].sizes_left = Tail(@),
                     ![i].result = [s \in DOMAIN @ \cup {size} |->
                                       IF s = size THEN r.result ELSE @[s]],
                     ![i].state = IF Len(pool[i].sizes_left) = 1
                                  THEN "finished" ELSE "running"]
               /\ waiter' = IF Len(pool[i].sizes_left) = 1 THEN Notified(i) ELSE waiter
    /\ UNCHANGED <<fn, args, ret, history, pillow, main>>

\* line 585: as_completed takes the futures already finished, in any order,
\* and installs a waiter on the others
AsCompletedWebp ==
    /\ fn = "batch_convert_to_webp"
    /\ main.pc = "submit"
    /\ Len(pool) = Len(main.image_files)
    /\ \E o \in Orders({i \in 1..Len(pool) : pool[i].state = "finished"}) :
          main' = [main EXCEPT !.pc = "collect", !.finished = o,
                               !.pending = (1..Len(pool)) \ Range(o)]
    /\ UNCHANGED <<fn, args, ret, fs, clock, encoder, history, pillow, pool, waiter>>

\* lines 586-631: the loop body for the next future as_completed yields
CollectWebp ==
    /\ fn = "batch_convert_to_webp"
    /\ main.pc = "collect"
    /\ main.finished # <<>>
    /\ \E due \in BOOLEAN :
          main' = [CollectWebpFuture(main, pool[Head(main.finished)], args.sizes,
                                     Len(main.image_files), due)
                      EXCEPT !.finished = Tail(main.finished)]
    /\ UNCHANGED <<fn, args, ret, fs, clock, encoder, history, pillow, pool, waiter>>

\* lines 633-680: every future was yielded; the statistics are logged and
\* the mapping is returned
ReturnWebp ==
    /\ fn = "batch_convert_to_webp"
    /\ main.pc = "collect"
    /\ main.finished = <<>>
    /\ main.pending = {}
    /\ \E st \in {Statistics(DOMAIN main.results, main.results, fs,
                              NoStatistics(args.sizes))} :
          main' = [main EXCEPT !.pc = "done", !.statistics = Some(st)]
    /\ ret' = [value |-> main.results]
    /\ UNCHANGED <<fn, args, fs, clock, encoder, history, pillow, pool, waiter>>

NextBatchWebp ==
    \/ RejectSourceDir
    \/ Scan
    \/ SubmitWebp
    \/ \E i \in 1..Len(pool) : StartWebpTask(i)
    \/ \E i \in 1..Len(pool) : StepWebpTask(i)
    \/ AsCompletedWebp
    \/ CollectWebp
    \/ Wake
    \/ ReturnWebp

SpecBatchWebp == InitBatchWebp /\ [][NextBatchWebp]_vars

Returned == ret # NoReturn

(***************************************************************************)
(* Exact arithmetic, for stating the claims: the quantities of the         *)
(* specification as rational numbers, compared by cross-multiplication.    *)
(***************************************************************************)
Abs(n) == IF n < 0 THEN -n ELSE n

\* floor(w * scale) and floor(h * scale) for scale = min(tw/w, th/h)
ExactFloorFit(size, target) ==
    IF target[1] * size[2] <= target[2] * size[1]
    THEN <<target[1], (size[2] * target[1]) \div size[1]>>
    ELSE <<(size[1] * target[2]) \div size[2], target[2]>>

\* n is an integer nearest to num / den
Nearest(n, num, den) == Abs((2 * num) - (2 * n * den)) <= den

\* each dimension of size is an integer nearest to w * scale, h * scale
NearestFit(size, image, target) ==
    IF target[1] * image[2] <= target[2] * image[1]
    THEN /\ Nearest(size[1], target[1], 1)
         /\ Nearest(size[2], image[2] * target[1], image[1])
    ELSE /\ Nearest(size[1], image[1] * target[2], image[2])
         /\ Nearest(size[2], target[2], 1)

\* |w/h - b1| <= |w/h - b2| for the ratios of buckets b1 and b2
NoFarther(w, h, b1, b2) ==
    Abs((w * b1[2]) - (b1[1] * h)) * b2[2] <= Abs((w * b2[2]) - (b2[1] * h)) * b1[2]

\* the first bucket of the list at minimal distance from w/h
FirstExactMin(w, h, buckets) ==
    buckets[CHOOSE i \in 1..Len(buckets) :
                /\ \A j \in 1..Len(buckets) : NoFarther(w, h, buckets[i], buckets[j])
                /\ \A j \in 1..(i - 1) : ~NoFarther(w, h, buckets[j], buckets[i])]

(***************************************************************************)
(* The claims.                                                             *)
(***************************************************************************)

\* C3: for every source size and every target size, resize_image in CROP mode
\* and in PADDING mode returns an image whose dimensions are exactly the
\* target's.
C3_CropPaddingExact ==
    (fn = "resize_image" /\ Returned /\ args.mode \in {"crop", "padding"})
        => (ret.ok /\ ret.size = args.target_size)

\* C4 as stated: in PROPORTIONAL mode each output dimension is w * scale
\* (h * scale) rounded to the nearest integer, scale = min(tw/w, th/h).
C4_RoundedToNearest ==
    (fn = "resize_image" /\ Returned /\ args.mode = "proportional" /\ ret.ok)
        => NearestFit(ret.size, args.image, args.target_size)

\* C4 amended: in PROPORTIONAL mode the size asked of the resampler is
\* (int(w * scale), int(h * scale)): each product truncated toward zero, which
\* for these sizes is the floor of the exact product; the call returns an image
\* of that size when both dimensions are at least 1 and raises otherwise.
C4_Truncated ==
    (fn = "resize_image" /\ Returned /\ args.mode = "proportional")
        => /\ ret.scaled = ExactFloorFit(args.image, args.target_size)
           /\ ret.ok <=> (ret.scaled[1] >= 1 /\ ret.scaled[2] >= 1)
           /\ ret.ok => ret.size = ret.scaled

\* C4 witness: a 3x4 image fitted into 2x4 has the exact size 2 x 2.67 and is
\* returned as 2x2.
C4_Witness ==
    /\ fn = "resize_image" /\ Returned
    /\ args.mode = "proportional"
    /\ args.image = <<3, 4>> /\ args.target_size = <<2, 4>>
    /\ ret.ok /\ ret.size = <<2, 2>>

\* C5: find_closest_bucket returns a bucket at minimal |w/h - bw/bh|, and of
\* several buckets at the minimum the one that comes first in the list.
C5_FirstOfTheClosest ==
    (fn = "find_closest_bucket" /\ Returned /\ args.buckets # <<>>)
        => /\ ret.ok
           /\ ret.bucket = FirstExactMin(args.width, args.height, args.buckets)

\* C9: whenever resize_by_short_edge resizes (only_shrink false, or the short
\* edge above the target length), the returned image's short edge is exactly
\* the target length.
C9_ShortEdgeExact ==
    (/\ fn = "resize_by_short_edge" /\ Returned
     /\ (~args.only_shrink \/ Min2(args.image[1], args.image[2]) > args.size))
        => (ret.ok /\ Min2(ret.size[1], ret.size[2]) = args.size)

(***************************************************************************)
(* C1: batch_convert submits each path of a non-empty list once, in order, *)
(* and returns one record per submitted path: as many records as paths,    *)
(* each path the input_path of as many records as it occurs in the list.   *)
(***************************************************************************)
Occurrences(s, x) == Cardinality({i \in 1..Len(s) : s[i] = x})

InputPaths(results) == [i \in 1..Len(results) |-> results[i].input_path]

BatchReturned == fn = "batch_convert" /\ main.pc = "done"

C1_OneRecordPerPath ==
    (BatchReturned /\ args.image_paths # <<>>) =>
        /\ Len(pool) = Len(args.image_paths)
        /\ \A i \in 1..Len(pool) : pool[i].path = args.image_paths[i]
        /\ Len(ret.value) = Len(args.image_paths)
        /\ \A p \in Range(args.image_paths) \cup Range(InputPaths(ret.value)) :
               Occurrences(InputPaths(ret.value), p)
                   = Occurrences(args.image_paths, p)

\* a path given twice, two workers, every task raising: two records
C1_Witness ==
    /\ BatchReturned
    /\ args.image_paths = <<GoodPath, GoodPath>>
    /\ args.workers = 2
    /\ "bogus" \in args.kwargs.given
    /\ Len(ret.value) = 2

(***************************************************************************)
(* C2: of the N records batch_convert returns, those with success = FALSE  *)
(* are exactly the records of the inputs whose own task fails (the image   *)
(* cannot be read or converted, or the task raises); every other record    *)
(* has success = TRUE, whatever happened to the sibling tasks and in       *)
(* whatever order the workers ran.                                         *)
(***************************************************************************)
\* the task of this path, run on its own, succeeds
SucceedsAlone(image_path) ==
    \E t \in {process_image(BatchFiles, image_path, args.output_dir, args.kwargs,
                             pillow.rejects_bad_webp_config)} :
        ~t.raised /\ t.result.success

C2_FailuresIsolated ==
    BatchReturned =>
        /\ Len(ret.value) = Len(args.image_paths)
        /\ \A i \in 1..Len(ret.value) :
               ret.value[i].success = SucceedsAlone(ret.value[i].input_path)
        /\ Cardinality({i \in 1..Len(ret.value) : ~ret.value[i].success})
               = Cardinality({i \in 1..Len(args.image_paths) :
                                 ~SucceedsAlone(args.image_paths[i])})

\* a corrupt image finished first, the good ones after it still succeeded
C2_Witness ==
    /\ BatchReturned
    /\ args.workers = 2
    /\ Len(ret.value) = 3
    /\ ~ret.value[1].success
    /\ ret.value[2].success
    /\ ret.value[3].success

(***************************************************************************)
(* C6: convert called with buckets=[] ends in a validation failure; it     *)
(* never returns a successful result that ignored the empty bucket list    *)
(* (the source being a readable image).                                    *)
(***************************************************************************)
C6_EmptyBucketsRejected ==
    (/\ fn = "convert"
     /\ Returned
     /\ args.buckets = Some(<<>>)
     /\ read_image(fs, args.image_path).ok)
        => ~ret.success

(***************************************************************************)
(* C7: every image.save call, on every path that reaches the encoder, is   *)
(* handed a quality in 1..100 and a WebP method in 0..6.                   *)
(***************************************************************************)
C7_EncoderRanges ==
    \A i \in 1..Len(encoder) :
        /\ encoder[i].quality # None => The(encoder[i].quality) \in 1..100
        /\ encoder[i].method # None => The(encoder[i].method) \in 0..6

(***************************************************************************)
(* C8: two calls of convert_to_webp in a row, the source untouched between *)
(* them and no output before the first, encode once: the second call       *)
(* returns the output path without calling image.save.                     *)
(***************************************************************************)
C8_SecondCallSkips ==
    (/\ fn = "convert_to_webp"
     /\ Len(history) >= 2
     /\ history[1].event = "convert_to_webp"
     /\ history[2].event = "convert_to_webp"
     /\ ~history[1].output_existed
     /\ history[1].encoded)
        => (/\ ~history[2].encoded
            /\ history[2].returned = Some(args.output_path)
            /\ Len(history) = 2 => Len(encoder) = 1)

(***************************************************************************)
(* C10: convert always hands image.save a format: the format parameter if  *)
(* one was given, else the one named by the output path's extension, else  *)
(* the source image's own format.                                          *)
(***************************************************************************)
C10_FormatPrecedence ==
    (fn = "convert" /\ Returned) =>
        \A i \in 1..Len(encoder) :
            encoder[i].format =
                IF args.format # None THEN args.format
                ELSE IF encoder[i].path.ext # ""
                THEN FormatOfExtension(encoder[i].path)
                ELSE Some(fs[args.image_path].format)

(***************************************************************************)
(* C11: a jpg token, arriving as the output path's extension or as the     *)
(* format parameter in any letter case, is JPEG internally: image.save is  *)
(* handed the format JPEG in a mode the compatibility check allows, a      *)
(* successful result's format is JPEG, and a synthesised default output    *)
(* filename ends in .jpg.                                                  *)
(***************************************************************************)
\* the token convert resolves the format from: the format parameter, else
\* the extension of the output path
FormatToken ==
    IF args.format # None THEN The(args.format) ELSE OutputPath(args).ext

C11_JpgIsJpeg ==
    (fn = "convert" /\ Returned /\ Upper(FormatToken) = "JPG") =>
        /\ \A i \in 1..Len(encoder) :
              /\ encoder[i].format = Some("JPEG")
              /\ encoder[i].mode \in {"RGB", "L"}
              /\ args.output_path = None /\ args.format # None
                    => encoder[i].path.ext = "jpg"
        /\ ret.success => ret.format = "JPEG"

(***************************************************************************)
(* C12: the image handed to image.save fits the format it is encoded in:   *)
(* RGB or L when the format is JPEG, RGB or RGBA when it is WEBP, for      *)
(* every mode of the source and every requested colour mode.               *)
(***************************************************************************)
\* the format an image.save call encodes in: the one passed, looked up by
\* its upper-cased name, else the one of the path's extension
EncodedFormat(call) ==
    IF call.format = None
    THEN PilExtensionFormat(Lower(call.path.ext))
    ELSE Some(Upper(The(call.format)))

C12_EncoderModeCompatible ==
    \A i \in 1..Len(encoder) :
        /\ EncodedFormat(encoder[i]) = Some("JPEG") => encoder[i].mode \in {"RGB", "L"}
        /\ EncodedFormat(encoder[i]) = Some("WEBP") => encoder[i].mode \in {"RGB", "RGBA"}

BatchWebpReturned ==
    fn = "batch_convert_to_webp" /\ main.pc = "done" /\ "value" \in DOMAIN ret

\* the files of the source directory that match, the outputs left aside
SourceFiles ==
    {p \in EnumeratedFiles(fs, args.source_dir) :
        ~IsPrefix(OutputBaseDir(args), p.dir)}

\* as stated: K keys, S = len(sizes) entries each
C14_KKeysSEntries ==
    BatchWebpReturned =>
        /\ DOMAIN ret.value = SourceFiles
        /\ \A p \in DOMAIN ret.value :
              /\ Cardinality(DOMAIN ret.value[p]) = Len(args.sizes)
              /\ \A s \in DOMAIN ret.value[p] :
                    ret.value[p][s] \in {None, Some(WebpOutputPath(args, p, s))}

\* one entry per distinct requested size
C14_OneEntryPerDistinctSize ==
    BatchWebpReturned =>
        /\ DOMAIN ret.value = SourceFiles
        /\ \A p \in DOMAIN ret.value :
              /\ DOMAIN ret.value[p] = Range(args.sizes)
              /\ \A s \in DOMAIN ret.value[p] :
                    ret.value[p][s] \in {None, Some(WebpOutputPath(args, p, s))}

\* three files, two sizes, a conversion that failed beside one that did not
C14_Witness ==
    /\ BatchWebpReturned
    /\ Cardinality(DOMAIN ret.value) = 3
    /\ args.sizes = <<1, 2>>
    /\ \E p \in DOMAIN ret.value : ret.value[p][1] = None /\ ret.value[p][2] # None


(***************************************************************************)
(* C15: in batch_convert_to_webp any two distinct (file, size) pairs of   *)
(* one run have different output paths, with keep_folder_structure and    *)
(* with the flattened layout, so no output file is written by two pairs.  *)
(***************************************************************************)
RunPairs == Range(main.image_files) \X Range(args.sizes)

C15_OwnOutputPerPair ==
    (fn = "batch_convert_to_webp" /\ "image_files" \in DOMAIN main) =>
        \A x \in RunPairs, y \in RunPairs :
            x # y => WebpOutputPath(args, x[1], x[2]) # WebpOutputPath(args, y[1], y[2])


(***************************************************************************)
(* C16: convert is idempotent on size and mode: when a first conversion    *)
(* succeeds, converting its output again with the same parameters yields   *)
(* the same final_size and mode.                                           *)
(***************************************************************************)
FirstCalls == {i \in 1..Len(history) : history[i].event = "convert"}

ConvertedTwice == fn = "convert" /\ Returned /\ FirstCalls # {}

FirstResult == history[CHOOSE i \in FirstCalls : TRUE].result

C16_ConvertIdempotent ==
    ConvertedTwice =>
        /\ ret.success
        /\ ret.final_size = FirstResult.final_size
        /\ ret.mode = FirstResult.mode


(***************************************************************************)
(* C17: the list batch_convert returns is ordered by task completion: the  *)
(* i-th record belongs to the i-th task to finish; with two workers and    *)
(* two inputs every order of the inputs is a reachable result order.       *)
(***************************************************************************)
\* how many tasks had finished when as_completed started
EarlyCount == CHOOSE k \in 0..(Len(history) - 1) : history[k + 1] = AsCompletedStarts

\* the tasks in the order they finished
Completions == SubSeq(history, 1, EarlyCount) \o SubSeq(history, EarlyCount + 2, Len(history))

\* as stated
C17_CompletionOrder ==
    BatchReturned =>
        \A i \in 1..Len(ret.value) :
            ret.value[i].input_path = pool[Completions[i]].path

\* the tasks finished before the loop starts come first, in any order; the
\* others follow in the order they finished
C17_LateInCompletionOrder ==
    (BatchReturned /\ args.image_paths # <<>>) =>
        /\ \A i \in (EarlyCount + 1)..Len(ret.value) :
              ret.value[i].input_path = pool[Completions[i]].path
        /\ \A i \in 1..EarlyCount :
              \E j \in 1..EarlyCount :
                  ret.value[i].input_path = pool[Completions[j]].path

\* two inputs, two workers, both tasks finish after the loop has started,
\* the second one first: the result is in the reverse of submission order
C17_Witness ==
    /\ BatchReturned
    /\ args.workers = 2
    /\ Len(args.image_paths) = 2
    /\ history = <<AsCompletedStarts, 2, 1>>
    /\ ret.value[1].input_path = args.image_paths[2]
    /\ ret.value[2].input_path = args.image_paths[1]
    /\ args.image_paths[1] # args.image_paths[2]


(***************************************************************************)
(* C18: a run of batch_convert or batch_convert_to_webp over at least one  *)
(* item emits a progress line for the first and for the last completed     *)
(* item, whatever the interval and also when items fail or tasks raise;    *)
(* the last line reports completed = total.                                *)
(***************************************************************************)
BatchTotal ==
    IF fn = "batch_convert" THEN Len(args.image_paths) ELSE Len(main.image_files)

C18_FirstAndLastProgress ==
    (fn \in {"batch_convert", "batch_convert_to_webp"} /\ main.pc = "done"
        /\ "value" \in DOMAIN ret /\ BatchTotal >= 1) =>
        /\ main.progress # <<>>
        /\ main.progress[1] = 1
        /\ main.progress[Len(main.progress)] = BatchTotal


(***************************************************************************)
(* C19: convert selects the nearest bucket exactly when a bucket list is   *)
(* given and (no resize is given or the mode is not proportional); without *)
(* a resize the bucket is the target size; with a resize the pass through  *)
(* the bucket comes before the pass to the explicit size; with buckets, a  *)
(* resize and the proportional mode no bucket is selected or applied.      *)
(* The bucket list is one that has a bucket, the source a readable image.  *)
(***************************************************************************)
BucketWanted ==
    TruthySeq(args.buckets)
        /\ (args.resize = None \/ args.resize_mode # "proportional")

Selections == {i \in 1..Len(history) : history[i].event = "find_closest_bucket"}

ResizePasses == {i \in 1..Len(history) : history[i].event = "resize_image"}

C19_BucketSelection ==
    (fn = "convert" /\ Returned /\ read_image(fs, args.image_path).ok) =>
        /\ (Selections # {}) <=> BucketWanted
        /\ BucketWanted =>
              /\ Selections = {1}
              /\ history[1].size = fs[args.image_path].size
              /\ history[1].target \in Range(The(args.buckets))
        /\ (BucketWanted /\ args.resize = None) =>
              /\ \A i \in ResizePasses : history[i].target = history[1].target
              /\ history[1].target # history[1].size => ResizePasses = {2}
        /\ (BucketWanted /\ args.resize # None) =>
              /\ 2 \in ResizePasses
              /\ history[2].target = history[1].target
              /\ \A i \in ResizePasses \ {2} :
                    i = 3 /\ history[i].target = The(args.resize)
              /\ (ret.success /\ ret.final_size # history[1].target) => 3 \in ResizePasses
        /\ ~BucketWanted =>
              \A i \in ResizePasses :
                  args.resize # None /\ history[i].target = The(args.resize)

\* buckets and a resize in crop mode: the bucket pass, then the explicit pass
C19_Witness ==
    /\ fn = "convert" /\ Returned /\ ret.success
    /\ args.resize_mode = "crop"
    /\ Len(history) = 3
    /\ history[1].event = "find_closest_bucket"
    /\ history[2] = GeometryCall("resize_image", ret.original_size, history[1].target)
    /\ history[3] = GeometryCall("resize_image", history[1].target, The(args.resize))


(***************************************************************************)
(* C20: convert_color on an image already in the target colour mode (RGB,  *)
(* RGBA or grayscale) is a no-op: the image comes back unchanged, without  *)
(* a conversion and without an error; convert with that colour mode on     *)
(* such an image succeeds and reports the mode.                            *)
(***************************************************************************)
\* the Pillow mode a member of ColorMode stands for
ModeOf(color_mode) ==
    CASE color_mode = "rgb" -> "RGB"
      [] color_mode = "rgba" -> "RGBA"
      [] OTHER -> color_mode

C20_SameModeIsNoOp ==
    (/\ fn = "convert" /\ Returned
     /\ args.color_mode # None
     /\ read_image(fs, args.image_path).ok
     /\ fs[args.image_path].mode = ModeOf(The(args.color_mode))) =>
        /\ convert_color(read_image(fs, args.image_path).image, The(args.color_mode))
               = [ok |-> TRUE, image |-> read_image(fs, args.image_path).image]
        /\ ret.success


(***************************************************************************)
(* C21: a call of convert_to_webp that finds the output file with a        *)
(* modification time strictly newer than the input's returns the output    *)
(* path and leaves the file system as it is (content and times of the      *)
(* output included), without a decode of the input and without a call of   *)
(* the encoder.                                                            *)
(***************************************************************************)
WebpCallStep ==
    /\ fn = "convert_to_webp"
    /\ Len(history') = Len(history) + 1
    /\ history'[Len(history')].event = "convert_to_webp"

OutputNewer ==
    /\ Exists(fs, args.output_path)
    /\ Exists(fs, args.image_path)
    /\ fs[args.output_path].mtime > fs[args.image_path].mtime

C21_NewerOutputUntouched ==
    [][(WebpCallStep /\ OutputNewer) =>
           /\ ret' = [value |-> Some(args.output_path)]
           /\ fs' = fs
           /\ encoder' = encoder]_vars

\* the output is newer than a source that cannot be decoded: the call
\* returns the path all the same
C21_Witness ==
    /\ fn = "convert_to_webp"
    /\ Len(history) = 1
    /\ history[1].event = "convert_to_webp"
    /\ history[1].output_existed
    /\ ret = [value |-> Some(args.output_path)]
    /\ encoder = <<>>
    /\ Exists(fs, args.image_path) /\ ~fs[args.image_path].decodable
    /\ fs[args.output_path].mtime > fs[args.image_path].mtime


(***************************************************************************)
(* C22: with only_shrink, resize_by_short_edge never upscales: an image    *)
(* whose short edge is at most the target comes back unchanged, and any    *)
(* other image comes back with a width and a height no larger than its     *)
(* own.                                                                    *)
(***************************************************************************)
C22_OnlyShrinkNeverUpscales ==
    (fn = "resize_by_short_edge" /\ Returned /\ args.only_shrink) =>
        /\ Min2(args.image[1], args.image[2]) <= args.size =>
              (ret.ok /\ ~ret.resized /\ ret.size = args.image)
        /\ (Min2(args.image[1], args.image[2]) > args.size /\ ret.ok) =>
              (ret.size[1] <= args.image[1] /\ ret.size[2] <= args.image[2])

\* an image that is shrunk, and one edge lands below the target's ratio
C22_Witness ==
    /\ fn = "resize_by_short_edge" /\ Returned /\ args.only_shrink
    /\ Min2(args.image[1], args.image[2]) > args.size
    /\ ret.ok /\ ret.resized
    /\ ret.size[1] < args.image[1] /\ ret.size[2] < args.image[2]


(***************************************************************************)
(* C23: in the statistics of batch_convert_to_webp only the images of      *)
(* which every requested size succeeded add to the input and output byte   *)
(* totals; an image that failed at some size adds nothing to either total  *)
(* and adds one to the failure count of exactly the sizes it failed at.    *)
(***************************************************************************)
AllSizesSucceeded ==
    {p \in DOMAIN ret.value : \A s \in DOMAIN ret.value[p] : ret.value[p][s] # None}

RECURSIVE InputBytesOf(_)
InputBytesOf(images) ==
    IF images = {} THEN 0
    ELSE LET p == CHOOSE q \in images : TRUE
         IN  GetSize(fs[p]) + InputBytesOf(images \ {p})

\* pairs <<image, size>> whose conversion gave an output path
RECURSIVE OutputBytesOf(_)
OutputBytesOf(pairs) ==
    IF pairs = {} THEN 0
    ELSE LET x == CHOOSE y \in pairs : TRUE
         IN  GetSize(fs[The(ret.value[x[1]][x[2]])]) + OutputBytesOf(pairs \ {x})

C23_OnlyCompleteImagesCounted ==
    (BatchWebpReturned /\ main.image_files # <<>>) =>
        LET st == The(main.statistics)
        IN  /\ st.total_input_size = InputBytesOf(AllSizesSucceeded)
            /\ st.total_output_size =
                   OutputBytesOf(AllSizesSucceeded \X Range(args.sizes))
            /\ \A s \in Range(args.sizes) :
                  st.failed_sizes[s] =
                      Cardinality({p \in DOMAIN ret.value : ret.value[p][s] = None})

\* one image failed at size 1 and succeeded at size 2, another succeeded at
\* both: the first adds to the failures of size 1 only, the second to the bytes
C23_Witness ==
    /\ BatchWebpReturned
    /\ args.sizes = <<1, 2>>
    /\ AllSizesSucceeded # {}
    /\ \E p \in DOMAIN ret.value : ret.value[p][1] = None /\ ret.value[p][2] # None
    /\ The(main.statistics).failed_sizes[2] < The(main.statistics).failed_sizes[1]
    /\ The(main.statistics).total_output_size > 0


(***************************************************************************)
(* C24: for every source size and target with all dimensions at least 1,   *)
(* the scaled size resize_image hands to image.resize has a width and a    *)
(* height of at least 1 in the three modes, and in the proportional and    *)
(* padding modes it does not exceed the target.                            *)
(***************************************************************************)
C24_ScaledSizeAtLeastOne ==
    (fn = "resize_image" /\ Returned) =>
        /\ ret.scaled[1] >= 1
        /\ ret.scaled[2] >= 1
        /\ args.mode \in {"proportional", "padding"} =>
              (ret.scaled[1] <= args.target_size[1]
                  /\ ret.scaled[2] <= args.target_size[2])


RerunCases ==
    {[call |-> BatchWebpCall(d, o, <<2>>, 85, w, 4, k), files |-> t] :
        d \in {TreeRoot, <<"nowhere">>}, o \in {None, Some(<<"out">>)},
        w \in WorkerCounts, k \in BOOLEAN,
        t \in {TreeOf(<<TreeFile(<<"src">>, "a", "jpg", Photo)>>),
               TreeOf(<<TreeFile(<<"src">>, "a", "jpg", Photo),
                        TreeFile(<<"src">>, "b", "png", CorruptFile(1))>>)}}

InitRerunWebp ==
    /\ fn = "batch_convert_to_webp"
    /\ \E c \in RerunCases : args = c.call /\ fs = c.files
    /\ ret = NoReturn
    /\ clock = 2
    /\ encoder = <<>>
    /\ history = <<>>
    /\ pillow = [rejects_bad_webp_config |-> TRUE, removes_failed_output |-> TRUE]
    /\ pool = <<>>
    /\ main = MainWebp("start")
    /\ waiter = <<>>

\* the caller calls batch_convert_to_webp again once the first call is over
CallBatchWebpAgain ==
    /\ fn = "batch_convert_to_webp"
    /\ main.pc = "done"
    /\ history = <<>>
    /\ history' = <<[event |-> "batch_convert_to_webp", returned |-> ret]>>
    /\ ret' = NoReturn
    /\ pool' = <<>>
    /\ main' = MainWebp("start")
    /\ waiter' = <<>>
    /\ UNCHANGED <<fn, args, fs, clock, encoder, pillow>>

NextRerunWebp ==
    \/ NextBatchWebp
    \/ CallBatchWebpAgain

SpecRerunWebp == InitRerunWebp /\ [][NextRerunWebp]_vars

(***************************************************************************)
(* C26: batch_convert_to_webp run twice on an unchanged source directory   *)
(* with the default output location source_dir/webp enumerates the same    *)
(* input files both times: the second result has the key set of the first. *)
(***************************************************************************)
C26_SameKeysOnRerun ==
    (/\ BatchWebpReturned
     /\ history # <<>>
     /\ "value" \in DOMAIN history[1].returned
     /\ args.output_base_dir = None)
        => DOMAIN ret.value = DOMAIN history[1].returned.value


(***************************************************************************)
(* utils/file_downloader.download_file.  A URL is [stem, ext, query]:      *)
(* "http://host/" stem ext, then "?" query when there is one.  A file of   *)
(* the download directory is [content], the bytes it holds.  main holds    *)
(* the locals of the call while the response is streamed.                  *)
(***************************************************************************)
MaxCalls == 2        \* download_file: calls in a row

DEFAULT_DOWNLOAD_DIR == "./downloaded_files"

\* the bytes the server holds for the URL
RemoteBody == <<1, 2, 3>>

\* extension.startswith('.')
StartsWithDot(extension) == extension \in {".bin", ".zip", ".tar"}

\* lines 50-77: the local path of the download
LocalPath(a) ==
    LET target_dir == IF TruthyStr(a.download_dir) THEN The(a.download_dir)
                      ELSE DEFAULT_DOWNLOAD_DIR
        file_id == IF TruthyStr(a.file_id) THEN The(a.file_id) ELSE a.url.stem
        extension0 == IF TruthyStr(a.extension) THEN The(a.extension)
                      ELSE IF a.url.ext # "" THEN a.url.ext ELSE ".tar"
        extension == IF StartsWithDot(extension0) THEN extension0
                     ELSE "." \o extension0
        local_filename == IF TruthyStr(a.filename) THEN The(a.filename)
                          ELSE file_id \o extension
    IN  [dir |-> target_dir, name |-> local_filename]

\* os.path.getsize of the local file, 0 when it does not exist (lines 84-86)
FileSize(files, path) == IF Exists(files, path) THEN Len(files[path].content) ELSE 0

\* what a server may answer to the GET: the whole body with 200, an error
\* status, and to a Range request the rest of the body with 206, or 416
\* when the range starts at or past the end (some servers send 206 with no
\* byte instead)
Response(status, body, has_length) == [status |-> status, body |-> body, has_length |-> has_length]

Responses(range) ==
    {Response(200, RemoteBody, l) : l \in BOOLEAN}
    \cup {Response(404, <<>>, FALSE)}
    \cup (IF range = None THEN {}
          ELSE IF The(range) < Len(RemoteBody)
          THEN {Response(206, SubSeq(RemoteBody, The(range) + 1, Len(RemoteBody)), l) :
                    l \in BOOLEAN}
          ELSE {Response(416, <<>>, FALSE), Response(206, <<>>, TRUE)})

MainDownload(pc) ==
    [pc |-> pc, local_path |-> None, status |-> 0, body_left |-> <<>>,
     total_size |-> 0, downloaded |-> 0, progress |-> <<>>, broken |-> FALSE]

DownloadCall(url, filename, file_id, extension, download_dir, progress_callback, chunk_size, resume) ==
    [url |-> url, filename |-> filename, file_id |-> file_id,
     extension |-> extension, download_dir |-> download_dir,
     progress_callback |-> progress_callback, chunk_size |-> chunk_size,
     resume |-> resume]

Urls == {[stem |-> "f", ext |-> ".bin", query |-> ""],
         [stem |-> "g", ext |-> "", query |-> "v=1"]}

\* the local file before the first call: none, an empty one, a part of the
\* body, the whole body, other bytes
LocalContents == {None, Some(<<>>), Some(<<1>>), Some(RemoteBody), Some(<<9, 9>>)}

DownloadCalls ==
    {DownloadCall(u, None, None, None, None, cb, c, r) :
        u \in Urls, cb \in BOOLEAN, c \in {1, 2}, r \in BOOLEAN}
    \cup
    {DownloadCall(u, f, i, e, d, FALSE, 2, TRUE) :
        u \in Urls, f \in {None, Some("x.dat")}, i \in {None, Some("id7")},
        e \in {None, Some("zip"), Some(".zip")}, d \in {None, Some("dl")}}

InitDownload ==
    /\ fn = "download_file"
    /\ \E a \in DownloadCalls, c \in LocalContents :
          /\ args = a
          /\ fs = IF c = None THEN [p \in {} |-> [content |-> <<>>]]
                  ELSE [p \in {LocalPath(a)} |-> [content |-> The(c)]]
    /\ ret = NoReturn
    /\ clock = 0
    /\ encoder = <<>>
    /\ history = <<>>
    /\ pillow = [rejects_bad_webp_config |-> TRUE, removes_failed_output |-> TRUE]
    /\ pool = <<>>
    /\ main = MainDownload("start")
    /\ waiter = <<>>

\* lines 83-90: the file exists, is not empty and resume is off
ReturnExisting ==
    /\ fn = "download_file"
    /\ main.pc = "start"
    /\ FileSize(fs, LocalPath(args)) > 0
    /\ ~args.resume
    /\ ret' = [value |-> Some(LocalPath(args))]
    /\ main' = [main EXCEPT !.pc = "done", !.local_path = Some(LocalPath(args))]
    /\ UNCHANGED <<fn, args, fs, clock, encoder, history, pillow, pool, waiter>>

\* lines 102-124: the response is read; 'ab' for a 206 to a resumed
\* download, else 'wb' and file_size 0; a status other than 200 and 206
\* returns None; the local file is opened in that mode
StartDownload(files, a, response) ==
    LET local_path == LocalPath(a)
        size0 == FileSize(files, local_path)
        append == a.resume /\ size0 > 0 /\ response.status = 206
        file_size == IF append THEN size0 ELSE 0
        ok == response.status \in {200, 206}
    IN  [ok |-> ok,
         files |-> IF ~ok \/ append THEN files
                   ELSE WriteFile(files, local_path, [content |-> <<>>]),
         main |-> [pc |-> IF ok THEN "stream" ELSE "done",
                   local_path |-> Some(local_path),
                   status |-> response.status,
                   body_left |-> IF ok THEN response.body ELSE <<>>,
                   total_size |-> IF ok /\ response.has_length
                                  THEN file_size + Len(response.body) ELSE 0,
                   downloaded |-> IF ok THEN file_size ELSE 0,
                   progress |-> <<>>, broken |-> FALSE]]

\* the Range header of the request, lines 84-93
RangeHeader(files, a) ==
    IF FileSize(files, LocalPath(a)) > 0 /\ a.resume
    THEN Some(FileSize(files, LocalPath(a))) ELSE None

\* lines 83-124: the GET is sent and answered
Request ==
    /\ fn = "download_file"
    /\ main.pc = "start"
    /\ ~(FileSize(fs, LocalPath(args)) > 0 /\ ~args.resume)
    /\ \E response \in Responses(RangeHeader(fs, args)) :
       \E s \in {StartDownload(fs, args, response)} :
          /\ fs' = s.files
          /\ main' = s.main
          /\ ret' = IF s.ok THEN ret ELSE [value |-> None]
    /\ UNCHANGED <<fn, args, clock, encoder, history, pillow, pool, waiter>>

\* lines 99-100, 147-149: requests.get raises (no connection, a timeout)
RequestFails ==
    /\ fn = "download_file"
    /\ main.pc = "start"
    /\ ~(FileSize(fs, LocalPath(args)) > 0 /\ ~args.resume)
    /\ main' = [main EXCEPT !.pc = "done", !.local_path = Some(LocalPath(args)),
                            !.broken = TRUE]
    /\ ret' = [value |-> None]
    /\ UNCHANGED <<fn, args, fs, clock, encoder, history, pillow, pool, waiter>>

\* lines 125-142: the next chunk is written and the progress reported
WriteChunk ==
    /\ fn = "download_file"
    /\ main.pc = "stream"
    /\ main.body_left # <<>>
    /\ \E n \in {Min2(args.chunk_size, Len(main.body_left))} :
       \E downloaded \in {main.downloaded + n} :
          /\ fs' = [fs EXCEPT ![The(main.local_path)].content =
                                  @ \o SubSeq(main.body_left, 1, n)]
          /\ main' = [main EXCEPT
                !.body_left = SubSeq(@, n + 1, Len(@)),
                !.downloaded = downloaded,
                !.progress = IF main.total_size > 0 /\ args.progress_callback
                             THEN Append(@, <<downloaded, main.total_size>>)
                             ELSE @]
    /\ UNCHANGED <<fn, args, ret, clock, encoder, history, pillow, pool, waiter>>

\* lines 125, 147-149: the connection breaks while the body is read
StreamBreaks ==
    /\ fn = "download_file"
    /\ main.pc = "stream"
    /\ main.body_left # <<>>
    /\ main' = [main EXCEPT !.pc = "done", !.broken = TRUE]
    /\ ret' = [value |-> None]
    /\ UNCHANGED <<fn, args, fs, clock, encoder, history, pillow, pool, waiter>>

\* lines 144-145: the body is exhausted
FinishDownload ==
    /\ fn = "download_file"
    /\ main.pc = "stream"
    /\ main.body_left = <<>>
    /\ main' = [main EXCEPT !.pc = "done"]
    /\ ret' = [value |-> main.local_path]
    /\ UNCHANGED <<fn, args, fs, clock, encoder, history, pillow, pool, waiter>>

\* the caller calls download_file again with the same arguments
CallDownloadAgain ==
    /\ fn = "download_file"
    /\ main.pc = "done"
    /\ Len(history) + 1 < MaxCalls
    /\ history' = Append(history, [event |-> "download_file", returned |-> ret,
                                   files |-> fs])
    /\ ret' = NoReturn
    /\ main' = MainDownload("start")
    /\ UNCHANGED <<fn, args, fs, clock, encoder, pillow, pool, waiter>>

NextDownload ==
    \/ ReturnExisting
    \/ Request
    \/ RequestFails
    \/ WriteChunk
    \/ StreamBreaks
    \/ FinishDownload
    \/ CallDownloadAgain

SpecDownload == InitDownload /\ [][NextDownload]_vars

(***************************************************************************)
(* C27: once a download has completed, download_file called again with the *)
(* same arguments and resume on returns the same local path and leaves the *)
(* file's content as it was, whether the server answers the Range request  *)
(* past the end with 206, with 200 and the whole body, or with 416.        *)
(***************************************************************************)
\* the call before this one returned the path of a file holding the body
CompletedBefore ==
    /\ fn = "download_file"
    /\ history # <<>>
    /\ history[Len(history)].returned = [value |-> Some(LocalPath(args))]
    /\ Exists(history[Len(history)].files, LocalPath(args))
    /\ history[Len(history)].files[LocalPath(args)].content = RemoteBody

C27_DownloadIdempotent ==
    (/\ CompletedBefore
     /\ args.resume
     /\ main.pc = "done"
     /\ main.status \in {200, 206, 416}
     /\ ~main.broken)
        => /\ ret = [value |-> Some(LocalPath(args))]
           /\ fs = history[Len(history)].files

=============================================================================
